---- MODULE Spec2Model ----
(***************************************************************************)
(* The fluid_step path of the GPU sidecar (node-harness/gpu-sidecar):      *)
(* the host in run() / run_fluid_step() records commands into an encoder   *)
(* and submits them; the device executes submitted commands in order.      *)
(* Recording is local to the host: a host action is one encoder, from its  *)
(* creation to queue.submit(encoder.finish()).                             *)
(*                                                                         *)
(* Buffer contents.  The kernels compute on f32 values.  A cell is kept    *)
(* here as a record [w, z, src]:                                           *)
(*   w   the stamp <<pipeline, step, it>> of the command that stored it,   *)
(*   z   TRUE when the stored value is the literal zero (a cleared or      *)
(*       freshly allocated cell, or vec2(0.0, 0.0) stored by a kernel),    *)
(*   src the stamps of the cells the stored value was computed from.       *)
(* A bilinear sample reads a 2x2 block at a position that depends on the   *)
(* velocity value; its src is the stamps of the whole sampled buffer.      *)
(***************************************************************************)
EXTENDS Integers, Sequences, FiniteSets, TLC

VARIABLES pc, args, step, queue, buf, last, ndisp, mapped, resp, wgdone, snap,
          input, req, calls, work, readback, ret, runs, stdout, exit, failure,
          num

vars == <<pc, args, step, queue, buf, last, ndisp, mapped, resp, wgdone, snap,
          input, req, calls, work, readback, ret, runs, stdout, exit, failure,
          num>>

\* The state of main() and run() around the request: the text on stdin, the
\* parsed request, the calls made to run_smoke / run_fluid_init /
\* run_fluid_step with their arguments, the command buffers submitted and
\* completed in run_smoke and run_fluid_init, the memory read back in
\* run_smoke, the value returned by the callee, the runs of a sweep, what was
\* printed on stdout, the exit status and the error that ended the request.
runVars == <<input, req, calls, work, readback, ret, runs, stdout, exit, failure>>

hostVars == <<pc, args, step, mapped, resp>>

devVars == <<queue, buf, last, ndisp, wgdone, snap>>

(* ------------------------------ bounds -------------------------------- *)
MaxWidthReq == 17

MaxHeightReq == 9

MaxStepsReq == 2

MaxJacobiReq == 6

\* the longest run computed on values
MaxNumSteps == 8

(* ------------------------- program constants -------------------------- *)
MIN_DIM == 16

MIN_STEPS == 1

JACOBI_LO == 5

JACOBI_HI == 120

WG_SIZE == 8

Max(a, b) == IF a >= b THEN a ELSE b

Min(a, b) == IF a <= b THEN a ELSE b

\* the clamp without its upper end
ClampLowOnly(v, lo, hi) == Max(lo, v)

Clamp(v, lo, hi) == Max(lo, Min(v, hi))

\* the quotient rounded down
DivFloor(a, b) == a \div b

DivCeil(a, b) == (a + b - 1) \div b

ReqWidths == {0, MaxWidthReq}

ReqHeights == {MaxHeightReq}

ReqSteps == 0..MaxStepsReq

ReqJacobi == (JACOBI_LO - 1)..MaxJacobiReq

(* ------------------------------ buffers ------------------------------- *)
StorageBufs ==
    {"vel_a", "vel_b", "dye_a", "dye_b", "div", "pressure_a", "pressure_b"}

ReadBufs == {"vel_read", "dye_read"}

BufNames == StorageBufs \cup ReadBufs

Stamp(pipeline, s, it) == <<pipeline, s, it>>

ZeroCell(tag) == [w |-> tag, z |-> TRUE, src |-> {}]

ValCell(tag, from) == [w |-> tag, z |-> FALSE, src |-> from]

\* mk_storage_vec2 / mk_storage_f32 / create_buffer: a new buffer of `cells`
\* elements, zero-initialised by the backend.
mk_storage(cells) == [c \in 0..(cells - 1) |-> ZeroCell(Stamp("alloc", 0, 0))]

Stamps(f) == {f[c].w : c \in DOMAIN f}

AllZero(f) == \A c \in DOMAIN f : f[c].z

(* ---------------------------- bind groups ----------------------------- *)
bg_init == (0 :> "params_buf" @@ 1 :> "vel_a" @@ 2 :> "dye_a")

\* bg-advect-vel with the output bound to the input buffer
bg_advect_vel_in_place == (0 :> "params_buf" @@ 1 :> "vel_a" @@ 2 :> "vel_a")

bg_advect_vel == (0 :> "params_buf" @@ 1 :> "vel_a" @@ 2 :> "vel_b")

\* bg-div with the previous step's final velocity vel_a bound as input
bg_div_stale == (0 :> "params_buf" @@ 1 :> "vel_a" @@ 2 :> "div")

bg_div == (0 :> "params_buf" @@ 1 :> "vel_b" @@ 2 :> "div")

\* bg-jacobi-ab with p_out bound to the buffer of p_in
bg_jacobi_ab_in_place ==
    (0 :> "params_buf" @@ 1 :> "pressure_a" @@ 2 :> "div" @@ 3 :> "pressure_a")

\* bg-jacobi-ab with the dye buffer dye_a bound where the divergence belongs
bg_jacobi_ab_dye ==
    (0 :> "params_buf" @@ 1 :> "pressure_a" @@ 2 :> "dye_a" @@ 3 :> "pressure_b")

bg_jacobi_ab ==
    (0 :> "params_buf" @@ 1 :> "pressure_a" @@ 2 :> "div" @@ 3 :> "pressure_b")

\* bg-jacobi-ba with the divergence buffer bound as output
bg_jacobi_ba_to_div ==
    (0 :> "params_buf" @@ 1 :> "pressure_b" @@ 2 :> "div" @@ 3 :> "div")

bg_jacobi_ba ==
    (0 :> "params_buf" @@ 1 :> "pressure_b" @@ 2 :> "div" @@ 3 :> "pressure_a")

bg_project_from_a ==
    (0 :> "params_buf" @@ 1 :> "vel_b" @@ 2 :> "pressure_a" @@ 3 :> "vel_a")

bg_project_from_b ==
    (0 :> "params_buf" @@ 1 :> "vel_b" @@ 2 :> "pressure_b" @@ 3 :> "vel_a")

\* bg-advect-dye with the advected (unprojected) velocity vel_b bound as vel
bg_advect_dye_unprojected ==
    (0 :> "params_buf" @@ 1 :> "vel_b" @@ 2 :> "dye_a" @@ 3 :> "dye_b")

bg_advect_dye ==
    (0 :> "params_buf" @@ 1 :> "vel_a" @@ 2 :> "dye_a" @@ 3 :> "dye_b")

\* bg-fade with dst left on dye_b
bg_fade_in_place == (0 :> "params_buf" @@ 1 :> "dye_b" @@ 2 :> "dye_b")

bg_fade == (0 :> "params_buf" @@ 1 :> "dye_b" @@ 2 :> "dye_a")

\* the Jacobi parity test inverted
JacobiBindGroupSwapped(it) == IF it % 2 = 1 THEN bg_jacobi_ab ELSE bg_jacobi_ba

\* set_bind_group in the Jacobi loop: if i % 2 == 0 { ab } else { ba }
JacobiBindGroup(it) == IF it % 2 = 0 THEN bg_jacobi_ab ELSE bg_jacobi_ba

\* the projection parity test inverted
ProjectBindGroupSwapped(jacobi_iters) ==
    IF jacobi_iters % 2 = 1 THEN bg_project_from_a ELSE bg_project_from_b

\* set_bind_group of the projection pass
ProjectBindGroup(jacobi_iters) ==
    IF jacobi_iters % 2 = 0 THEN bg_project_from_a ELSE bg_project_from_b

(* ------------------- kernel interfaces (WGSL bindings) ---------------- *)
\* Bindings a kernel loads from: var<uniform> and var<storage, read>.
ReadBindings(pipeline) ==
    CASE pipeline = "init"       -> {0}
      [] pipeline = "advect_vel" -> {0, 1}
      [] pipeline = "divergence" -> {0, 1}
      [] pipeline = "jacobi"     -> {0, 1, 2}
      [] pipeline = "project"    -> {0, 1, 2}
      [] pipeline = "advect_dye" -> {0, 1, 2}
      [] pipeline = "fade"       -> {0, 1}

\* Bindings a kernel stores to: var<storage, read_write>.
WriteBindings(pipeline) ==
    CASE pipeline = "init"       -> {1, 2}
      [] pipeline = "advect_vel" -> {2}
      [] pipeline = "divergence" -> {2}
      [] pipeline = "jacobi"     -> {3}
      [] pipeline = "project"    -> {3}
      [] pipeline = "advect_dye" -> {3}
      [] pipeline = "fade"       -> {2}

\* The binding a kernel samples bilinearly (sample_vel / sample_dye), 0 if none.
SampledBinding(pipeline) ==
    CASE pipeline = "advect_vel" -> 1
      [] pipeline = "advect_dye" -> 2
      [] OTHER -> 0

(* ------------------------------ kernels ------------------------------- *)
\* fn idx(x, y) -> u32 { return y * p.width + x; }
idx(x, y, P) == y * P.width + x

\* a periodic boundary: the coordinate wraps around instead of being clamped
c_wrap(x, maxv) == x % maxv

\* fn c(x: i32, maxv: u32) -> u32 { return u32(clamp(x, 0, i32(maxv) - 1)); }
c(x, maxv) == Clamp(x, 0, maxv - 1)

\* if (gid.x >= p.width || gid.y >= p.height) { return; }
OutOfGrid(x, y, P) == x >= P.width \/ y >= P.height

AdvectVelEdge(x, y, P) ==
    x = 0 \/ y = 0 \/ x = P.width - 1 \/ y = P.height - 1

\* the edge test without its x == width - 1 case
ProjectEdgeNoRight(x, y, P) ==
    x = 0 \/ y = 0 \/ y = P.height - 1

ProjectEdge(x, y, P) ==
    x = 0 \/ y = 0 \/ x = P.width - 1 \/ y = P.height - 1

\* The four clamped neighbours of (x, y): left, right, bottom, top.
Neighbours(x, y, P) ==
    << idx(c(x - 1, P.width), c(y, P.height), P),
       idx(c(x + 1, P.width), c(y, P.height), P),
       idx(c(x, P.width), c(y - 1, P.height), P),
       idx(c(x, P.width), c(y + 1, P.height), P) >>

\* The stamps of the cells at the locations lds = {<<buffer, index>>, ...}.
From(b, lds) == {b[l[1]][l[2]].w : l \in lds}

\* Each kernel is given by two operators, for invocation (x, y) under the
\* bind group bg.  ...Loads: the locations <<buffer, index>> it loads at
\* indices that do not depend on data (the bilinear sample is SampledBinding).
\* ...Main: its stores <<buffer, index, cell>>, given the buffers b, the
\* stamps smp of the sampled buffer and the stamp tag of the dispatch.
FluidInitLoads(x, y, P, bg) == {}

FluidInitMain(x, y, P, bg, b, smp, tag) ==
    IF OutOfGrid(x, y, P) THEN <<>>
    ELSE << <<bg[1], idx(x, y, P), ValCell(tag, {})>>,
            <<bg[2], idx(x, y, P), ValCell(tag, {})>> >>

\* let v = src[id];  (edge invocations return before it)
FluidAdvectVelLoads(x, y, P, bg) ==
    IF OutOfGrid(x, y, P) \/ AdvectVelEdge(x, y, P) THEN {}
    ELSE {<<bg[1], idx(x, y, P)>>}

FluidAdvectVelMain(x, y, P, bg, b, smp, tag) ==
    IF OutOfGrid(x, y, P) THEN <<>>
    ELSE IF AdvectVelEdge(x, y, P)
         THEN << <<bg[2], idx(x, y, P), ZeroCell(tag)>> >>
         ELSE << <<bg[2], idx(x, y, P),
                   ValCell(tag, From(b, FluidAdvectVelLoads(x, y, P, bg)) \cup smp)>> >>

\* vl, vr, vb, vt
FluidDivergenceLoads(x, y, P, bg) ==
    IF OutOfGrid(x, y, P) THEN {}
    ELSE LET nb == Neighbours(x, y, P)
         IN {<<bg[1], nb[1]>>, <<bg[1], nb[2]>>, <<bg[1], nb[3]>>, <<bg[1], nb[4]>>}

FluidDivergenceMain(x, y, P, bg, b, smp, tag) ==
    IF OutOfGrid(x, y, P) THEN <<>>
    ELSE << <<bg[2], idx(x, y, P),
              ValCell(tag, From(b, FluidDivergenceLoads(x, y, P, bg)))>> >>

\* pl, pr, pb, pt and d = div[idx(gid.x, gid.y)]
FluidJacobiLoads(x, y, P, bg) ==
    IF OutOfGrid(x, y, P) THEN {}
    ELSE LET nb == Neighbours(x, y, P)
         IN {<<bg[1], nb[1]>>, <<bg[1], nb[2]>>, <<bg[1], nb[3]>>, <<bg[1], nb[4]>>}
         \cup {<<bg[2], idx(x, y, P)>>}

FluidJacobiMain(x, y, P, bg, b, smp, tag) ==
    IF OutOfGrid(x, y, P) THEN <<>>
    ELSE << <<bg[3], idx(x, y, P),
              ValCell(tag, From(b, FluidJacobiLoads(x, y, P, bg)))>> >>

\* pl, pr, pb, pt and vel[idx(gid.x, gid.y)] (select evaluates both operands)
FluidProjectLoads(x, y, P, bg) ==
    IF OutOfGrid(x, y, P) THEN {}
    ELSE LET nb == Neighbours(x, y, P)
         IN {<<bg[2], nb[1]>>, <<bg[2], nb[2]>>, <<bg[2], nb[3]>>, <<bg[2], nb[4]>>}
         \cup {<<bg[1], idx(x, y, P)>>}

FluidProjectMain(x, y, P, bg, b, smp, tag) ==
    IF OutOfGrid(x, y, P) THEN <<>>
    ELSE IF ProjectEdge(x, y, P)
         THEN << <<bg[3], idx(x, y, P), ZeroCell(tag)>> >>
         ELSE << <<bg[3], idx(x, y, P),
                   ValCell(tag, From(b, FluidProjectLoads(x, y, P, bg)))>> >>

\* vel[id]
FluidAdvectDyeLoads(x, y, P, bg) ==
    IF OutOfGrid(x, y, P) THEN {}
    ELSE {<<bg[1], idx(x, y, P)>>}

FluidAdvectDyeMain(x, y, P, bg, b, smp, tag) ==
    IF OutOfGrid(x, y, P) THEN <<>>
    ELSE << <<bg[3], idx(x, y, P),
              ValCell(tag, From(b, FluidAdvectDyeLoads(x, y, P, bg)) \cup smp)>> >>

\* src[id]
FluidFadeLoads(x, y, P, bg) ==
    IF OutOfGrid(x, y, P) THEN {}
    ELSE {<<bg[1], idx(x, y, P)>>}

FluidFadeMain(x, y, P, bg, b, smp, tag) ==
    IF OutOfGrid(x, y, P) THEN <<>>
    ELSE << <<bg[2], idx(x, y, P),
              ValCell(tag, From(b, FluidFadeLoads(x, y, P, bg)))>> >>

KernelLoads(pipeline, x, y, P, bg) ==
    CASE pipeline = "init"       -> FluidInitLoads(x, y, P, bg)
      [] pipeline = "advect_vel" -> FluidAdvectVelLoads(x, y, P, bg)
      [] pipeline = "divergence" -> FluidDivergenceLoads(x, y, P, bg)
      [] pipeline = "jacobi"     -> FluidJacobiLoads(x, y, P, bg)
      [] pipeline = "project"    -> FluidProjectLoads(x, y, P, bg)
      [] pipeline = "advect_dye" -> FluidAdvectDyeLoads(x, y, P, bg)
      [] pipeline = "fade"       -> FluidFadeLoads(x, y, P, bg)

KernelMain(pipeline, x, y, P, bg, b, smp, tag) ==
    CASE pipeline = "init"       -> FluidInitMain(x, y, P, bg, b, smp, tag)
      [] pipeline = "advect_vel" -> FluidAdvectVelMain(x, y, P, bg, b, smp, tag)
      [] pipeline = "divergence" -> FluidDivergenceMain(x, y, P, bg, b, smp, tag)
      [] pipeline = "jacobi"     -> FluidJacobiMain(x, y, P, bg, b, smp, tag)
      [] pipeline = "project"    -> FluidProjectMain(x, y, P, bg, b, smp, tag)
      [] pipeline = "advect_dye" -> FluidAdvectDyeMain(x, y, P, bg, b, smp, tag)
      [] pipeline = "fade"       -> FluidFadeMain(x, y, P, bg, b, smp, tag)

(* ------------------------------ commands ------------------------------ *)
Dispatch(pipeline, bg, P, s, it) ==
    [op |-> "dispatch", pipeline |-> pipeline, bg |-> bg,
     gx |-> DivCeil(P.width, WG_SIZE), gy |-> DivCeil(P.height, WG_SIZE),
     src |-> "", dst |-> "", step |-> s, it |-> it]

ClearBuffer(dst, s) ==
    [op |-> "clear", pipeline |-> "clear", bg |-> <<>>, gx |-> 0, gy |-> 0,
     src |-> "", dst |-> dst, step |-> s, it |-> 0]

CopyBuffer(src, dst, s) ==
    [op |-> "copy", pipeline |-> "copy", bg |-> <<>>, gx |-> 0, gy |-> 0,
     src |-> src, dst |-> dst, step |-> s, it |-> 0]

NoCmd ==
    [op |-> "none", pipeline |-> "none", bg |-> <<>>, gx |-> 0, gy |-> 0,
     src |-> "", dst |-> "", step |-> 0, it |-> 0]

CmdStamp(cmd) == Stamp(cmd.pipeline, cmd.step, cmd.it)

CmdReads(cmd) ==
    CASE cmd.op = "dispatch" -> {cmd.bg[k] : k \in ReadBindings(cmd.pipeline)}
      [] cmd.op = "copy"     -> {cmd.src}
      [] OTHER               -> {}

CmdWrites(cmd) ==
    CASE cmd.op = "dispatch" -> {cmd.bg[k] : k \in WriteBindings(cmd.pipeline)}
      [] cmd.op = "copy"     -> {cmd.dst}
      [] cmd.op = "clear"    -> {cmd.dst}
      [] OTHER               -> {}

(* ------------------------- device execution --------------------------- *)
RECURSIVE WorkgroupStores(_, _, _, _, _, _, _, _)
\* The stores of local invocations lo..hi of workgroup (wx, wy), in
\* local_invocation_index order, all reading the buffers b.
WorkgroupStores(cmd, wx, wy, P, b, smp, lo, hi) ==
    IF lo = hi
    THEN KernelMain(cmd.pipeline,
                    wx * WG_SIZE + (lo % WG_SIZE),
                    wy * WG_SIZE + (lo \div WG_SIZE),
                    P, cmd.bg, b, smp, CmdStamp(cmd))
    ELSE WorkgroupStores(cmd, wx, wy, P, b, smp, lo, (lo + hi) \div 2)
         \o WorkgroupStores(cmd, wx, wy, P, b, smp, (lo + hi) \div 2 + 1, hi)

\* One store to the buffer `name`, whose cells are f; a store to another
\* buffer leaves f alone and a store outside the buffer is discarded.
ApplyStore(f, name, st) ==
    IF st[1] = name /\ st[2] \in DOMAIN f
    THEN [f EXCEPT ![st[2]] = st[3]]
    ELSE f

RECURSIVE ApplyStores(_, _, _, _, _)
\* The stores ws[lo..hi] applied in order to the buffer `name`.  (The test on
\* DOMAIN makes TLC evaluate the first half before it descends into the
\* second, which keeps its evaluation stack shallow; it is never true.)
ApplyStores(f, name, ws, lo, hi) ==
    IF lo > hi THEN f
    ELSE IF lo = hi THEN ApplyStore(f, name, ws[lo])
    ELSE LET first == ApplyStores(f, name, ws, lo, (lo + hi) \div 2)
         IN IF DOMAIN first = {} THEN first
            ELSE ApplyStores(first, name, ws, (lo + hi) \div 2 + 1, hi)

SampledStamps(cmd, b) ==
    IF SampledBinding(cmd.pipeline) = 0 THEN {}
    ELSE Stamps(b[cmd.bg[SampledBinding(cmd.pipeline)]])

\* One workgroup of WG_SIZE x WG_SIZE invocations.
ExecWorkgroup(b, cmd, wx, wy, P) ==
    LET smp == SampledStamps(cmd, b)
        ws == WorkgroupStores(cmd, wx, wy, P, b, smp, 0, WG_SIZE * WG_SIZE - 1)
    IN [n \in DOMAIN b |->
           IF n \in CmdWrites(cmd) THEN ApplyStores(b[n], n, ws, 1, Len(ws))
           ELSE b[n]]

RECURSIVE ExecWorkgroups(_, _, _, _)
\* dispatch_workgroups(gx, gy, 1): workgroups 0..n-1, one after the other.
ExecWorkgroups(b, cmd, P, n) ==
    IF n = 0 THEN b
    ELSE ExecWorkgroup(ExecWorkgroups(b, cmd, P, n - 1), cmd,
                       (n - 1) % cmd.gx, (n - 1) \div cmd.gx, P)

\* The buffers after a whole command.
ExecCommand(b, cmd, P) ==
    CASE cmd.op = "dispatch" -> ExecWorkgroups(b, cmd, P, cmd.gx * cmd.gy)
      [] cmd.op = "clear" ->
            [b EXCEPT ![cmd.dst] = [k \in DOMAIN b[cmd.dst] |-> ZeroCell(CmdStamp(cmd))]]
      [] cmd.op = "copy" -> [b EXCEPT ![cmd.dst] = b[cmd.src]]

\* What the device records of a completed command: the command and, for each
\* buffer it reads, the stamps that buffer held when the command started.
Executed(cmd, b) ==
    [cmd |-> cmd,
     rd |-> [n \in (CmdReads(cmd) \cap BufNames) |-> Stamps(b[n])]]

(* ------------------------------- host --------------------------------- *)
Pipelines ==
    {"init", "advect_vel", "divergence", "jacobi", "project", "advect_dye", "fade"}

\* No request is being computed on values.
NumOff == [stage |-> "off"]

\* Nothing is parsed, called, submitted, returned or printed yet.
RunInit ==
    /\ req = [cmd |-> "none"]
    /\ calls = <<>>
    /\ work = [submitted |-> 0, done |-> 0, wait_err |-> FALSE]
    /\ readback = <<>>
    /\ ret = [ok |-> FALSE, kind |-> "none"]
    /\ runs = <<>>
    /\ stdout = <<>>
    /\ exit = "running"
    /\ failure = "none"

Init ==
    /\ pc = "start"
    /\ args = [width |-> 0, height |-> 0, steps |-> 0, jacobi_iters |-> 0]
    /\ step = 0
    /\ queue = <<>>
    /\ buf = [n \in BufNames |-> <<>>]
    /\ last = Executed(NoCmd, <<>>)
    /\ ndisp = [k \in Pipelines |-> 0]
    /\ mapped = {}
    /\ resp = "none"
    /\ wgdone = {}
    /\ snap = <<>>
    /\ input = <<>>
    /\ RunInit
    /\ num = NumOff

\* run(): Request::FluidStep, the clamps of the arguments, then the start of
\* run_fluid_step: the buffers are created.
RunFluidStep(Ws, Hs, Ss, Js) ==
    /\ pc = "start"
    /\ \E width \in Ws, height \in Hs, steps \in Ss, jacobi_iters \in Js :
          /\ args' = [width |-> Max(width, MIN_DIM),
                      height |-> Max(height, MIN_DIM),
                      steps |-> Max(steps, MIN_STEPS),
                      jacobi_iters |-> Clamp(jacobi_iters, JACOBI_LO, JACOBI_HI)]
          /\ buf' = [n \in BufNames |->
                        mk_storage(Max(width, MIN_DIM) * Max(height, MIN_DIM))]
    /\ pc' = "seed"
    /\ UNCHANGED <<step, queue, last, ndisp, mapped, resp, wgdone, snap>>

\* The encoder of "seed initial velocity + dye".
SeedCommands(P) == <<Dispatch("init", bg_init, P, 0, 0)>>

\* the Jacobi loop with a fixed count of JACOBI_LO passes, whatever n is
JacobiPassesFixed(P, s, n) ==
    [k \in 1..JACOBI_LO |-> Dispatch("jacobi", JacobiBindGroup(k - 1), P, s, k - 1)]

\* for i in 0..jacobi_iters { ... }: the passes of iterations 0..n-1
JacobiPasses(P, s, n) ==
    [k \in 1..n |-> Dispatch("jacobi", JacobiBindGroup(k - 1), P, s, k - 1)]

\* the step without the clear of pressure_b
StepCommandsClearAOnly(P, s) ==
    << ClearBuffer("pressure_a", s),
       Dispatch("advect_vel", bg_advect_vel, P, s, 0),
       Dispatch("divergence", bg_div, P, s, 0) >>
    \o JacobiPasses(P, s, P.jacobi_iters)
    \o << Dispatch("project", ProjectBindGroup(P.jacobi_iters), P, s, 0),
          Dispatch("advect_dye", bg_advect_dye, P, s, 0),
          Dispatch("fade", bg_fade, P, s, 0) >>

\* the step with the dye advection recorded before the projection
StepCommandsDyeBeforeProject(P, s) ==
    << ClearBuffer("pressure_a", s),
       ClearBuffer("pressure_b", s),
       Dispatch("advect_vel", bg_advect_vel, P, s, 0),
       Dispatch("divergence", bg_div, P, s, 0) >>
    \o JacobiPasses(P, s, P.jacobi_iters)
    \o << Dispatch("advect_dye", bg_advect_dye, P, s, 0),
          Dispatch("project", ProjectBindGroup(P.jacobi_iters), P, s, 0),
          Dispatch("fade", bg_fade, P, s, 0) >>

\* the step with the seed pass recorded again at its start
StepCommandsReseed(P, s) ==
    << Dispatch("init", bg_init, P, 0, 0),
       ClearBuffer("pressure_a", s),
       ClearBuffer("pressure_b", s),
       Dispatch("advect_vel", bg_advect_vel, P, s, 0),
       Dispatch("divergence", bg_div, P, s, 0) >>
    \o JacobiPasses(P, s, P.jacobi_iters)
    \o << Dispatch("project", ProjectBindGroup(P.jacobi_iters), P, s, 0),
          Dispatch("advect_dye", bg_advect_dye, P, s, 0),
          Dispatch("fade", bg_fade, P, s, 0) >>

\* The encoder of one iteration of for _ in 0..steps { ... }, as step s.
StepCommands(P, s) ==
    << ClearBuffer("pressure_a", s),
       ClearBuffer("pressure_b", s),
       Dispatch("advect_vel", bg_advect_vel, P, s, 0),
       Dispatch("divergence", bg_div, P, s, 0) >>
    \o JacobiPasses(P, s, P.jacobi_iters)
    \o << Dispatch("project", ProjectBindGroup(P.jacobi_iters), P, s, 0),
          Dispatch("advect_dye", bg_advect_dye, P, s, 0),
          Dispatch("fade", bg_fade, P, s, 0) >>

\* the readback of the scratch buffers vel_b and dye_b
ReadbackCommandsFromScratch(s) ==
    << CopyBuffer("vel_b", "vel_read", s), CopyBuffer("dye_b", "dye_read", s) >>

\* The encoder of the two copy_buffer_to_buffer after the loop.
ReadbackCommands(s) ==
    << CopyBuffer("vel_a", "vel_read", s), CopyBuffer("dye_a", "dye_read", s) >>

\* seed initial velocity + dye, queue.submit
Seed ==
    /\ pc = "seed"
    /\ queue' = queue \o SeedCommands(args)
    /\ pc' = "loop"
    /\ UNCHANGED <<args, step, buf, last, ndisp, mapped, resp, wgdone, snap>>

\* One iteration of for _ in 0..steps, up to its queue.submit
Step ==
    /\ pc = "loop"
    /\ step < args.steps
    /\ queue' = queue \o StepCommands(args, step + 1)
    /\ step' = step + 1
    /\ UNCHANGED <<pc, args, buf, last, ndisp, mapped, resp, wgdone, snap>>

\* The loop is over: the readback copies are recorded and submitted.
Readback ==
    /\ pc = "loop"
    /\ step >= args.steps
    /\ queue' = queue \o ReadbackCommands(step + 1)
    /\ pc' = "map_vel"
    /\ UNCHANGED <<args, step, buf, last, ndisp, mapped, resp, wgdone, snap>>

\* map_wait: map_async, then device.poll(wait_indefinitely) returns once all
\* submitted work is done and the mapping has resolved.
MapWait(from, name, to) ==
    /\ pc = from
    /\ queue = <<>>
    /\ wgdone = {}
    /\ mapped' = mapped \cup {name}
    /\ pc' = to
    /\ UNCHANGED <<args, step, queue, buf, last, ndisp, resp, wgdone, snap>>

MapWaitVel == MapWait("map_vel", "vel_read", "map_dye")

MapWaitDye == MapWait("map_dye", "dye_read", "stats")

\* map_wait whose callback receives Err(BufferAsyncError), or whose channel is
\* closed: rx.recv().context(..)?? returns the error, run_fluid_step returns
\* it and main prints the error object.
MapWaitFails ==
    /\ pc \in {"map_vel", "map_dye"}
    /\ resp' = "error"
    /\ pc' = "failed"
    /\ UNCHANGED <<args, step, queue, buf, last, ndisp, mapped, wgdone, snap>>

\* The statistics loops over the mapped memory, unmap, and the response.
Respond ==
    /\ pc = "stats"
    /\ resp' = "ok"
    /\ mapped' = {}
    /\ pc' = "done"
    /\ UNCHANGED <<args, step, queue, buf, last, ndisp, wgdone, snap>>

HostNext ==
    \/ Seed \/ Step \/ Readback \/ MapWaitVel \/ MapWaitDye \/ MapWaitFails
    \/ Respond

(* ------------------------------ device -------------------------------- *)
Count(cmd) ==
    IF cmd.op = "dispatch"
    THEN [ndisp EXCEPT ![cmd.pipeline] = @ + 1]
    ELSE ndisp

\* Command grain: the device runs the oldest submitted command to completion.
GpuExec ==
    /\ queue # <<>>
    /\ wgdone = {}
    /\ buf' = ExecCommand(buf, Head(queue), args)
    /\ last' = Executed(Head(queue), buf)
    /\ ndisp' = Count(Head(queue))
    /\ queue' = Tail(queue)
    /\ UNCHANGED <<hostVars, wgdone, snap>>

\* The workgroups of dispatch_workgroups(gx, gy, 1).
Workgroups(cmd) == (0..(cmd.gx - 1)) \X (0..(cmd.gy - 1))

\* The buffers as they were when the running dispatch started (snap keeps
\* them until the next dispatch starts).
AtStart == IF wgdone = {} THEN buf ELSE snap

\* Workgroup grain: the device runs one more workgroup of the oldest submitted
\* dispatch, in any order; the dispatch completes with its last workgroup.
GpuWorkgroup ==
    /\ queue # <<>>
    /\ Head(queue).op = "dispatch"
    /\ \E wg \in Workgroups(Head(queue)) \ wgdone :
          /\ buf' = ExecWorkgroup(buf, Head(queue), wg[1], wg[2], args)
          /\ IF wgdone \cup {wg} = Workgroups(Head(queue))
             THEN /\ wgdone' = {}
                  /\ snap' = AtStart
                  /\ last' = Executed(Head(queue), AtStart)
                  /\ ndisp' = Count(Head(queue))
                  /\ queue' = Tail(queue)
             ELSE /\ wgdone' = wgdone \cup {wg}
                  /\ snap' = AtStart
                  /\ UNCHANGED <<last, ndisp, queue>>
    /\ UNCHANGED hostVars

\* clear_buffer and copy_buffer_to_buffer run as one transfer.
GpuTransfer ==
    /\ queue # <<>>
    /\ Head(queue).op # "dispatch"
    /\ GpuExec

Next ==
    /\ \/ RunFluidStep(ReqWidths, ReqHeights, ReqSteps, ReqJacobi)
       \/ HostNext
       \/ GpuExec
    /\ UNCHANGED runVars
    /\ UNCHANGED num

Spec == Init /\ [][Next]_vars

\* The oldest submitted command completes: the step GpuExec takes, told by
\* what it does to the queue.
Completes == queue # <<>> /\ wgdone = {} /\ queue' = Tail(queue)

\* The same program with progress: the host thread keeps running (a host
\* step that can be taken is taken) and the backend completes every command
\* that was submitted.
SpecFair ==
    /\ Spec
    /\ WF_vars(HostNext /\ UNCHANGED runVars /\ UNCHANGED num)
    /\ WF_queue(Completes)

\* The same program with the device at workgroup grain, for one request size.
NextWG ==
    /\ \/ RunFluidStep({MaxWidthReq}, ReqHeights, {MIN_STEPS}, {JACOBI_LO})
       \/ HostNext
       \/ GpuTransfer
       \/ GpuWorkgroup
    /\ UNCHANGED runVars
    /\ UNCHANGED num

SpecWG == Init /\ [][NextWG]_vars

(* ---------------------------- main and run ----------------------------- *)
\* Floating-point request fields are kept in units of 1e-4 (dt 0.1 is 1000,
\* fade 0.995 is 9950); JSON has no NaN, so every parsed value is a number.
SMOKE_MIN == 64

\* @workgroup_size(64) of the smoke kernel, and the 64 of n.div_ceil(64)
SMOKE_WG_SIZE == 64

\* The smoke dispatch of run_smoke(n), dispatch_workgroups(n.div_ceil(64), 1, 1)
\* with p.width = n: invocation l of workgroup g has i = gid.x = g * 64 + l
\* and, if i < p.width, loads and stores data[i].  The set of <<g, l, i>> of
\* the invocations that touch data, with the index they touch.
SmokeStores(n) ==
    {t \in {<<gl[1], gl[2], gl[1] * SMOKE_WG_SIZE + gl[2]>> :
               gl \in (0..(DivCeil(n, SMOKE_WG_SIZE) - 1)) \X (0..(SMOKE_WG_SIZE - 1))} :
        t[3] < n}

DEFAULT_SMOKE_N == 1024

DT_MIN == 1

FADE_LO == 8000

FADE_HI == 10000

default_steps == 1

default_dt == 1000

default_fade == 9950

default_jacobi == 30

fallback == <<1024, 4096, 16384, 65536>>

\* A JSON number that fits a u32 field.  (The numbers tried are below 2^31,
\* so only the sign and the fraction can make a number unfit.)
IsU32(v) == v \in Nat

\* stdin is a sequence of pieces: whitespace, a JSON object, bytes that are
\* not JSON, bytes that are not UTF-8.
Space == [t |-> "sp"]

Junk == [t |-> "junk"]

BadUtf8 == [t |-> "bad_utf8"]

Json(obj) == [t |-> "json", v |-> obj]

RECURSIVE TrimStart(_)
TrimStart(text) ==
    IF text # <<>> /\ Head(text) = Space THEN TrimStart(Tail(text)) ELSE text

RECURSIVE TrimEnd(_)
TrimEnd(text) ==
    IF text # <<>> /\ text[Len(text)] = Space
    THEN TrimEnd(SubSeq(text, 1, Len(text) - 1))
    ELSE text

\* the text taken as it is
NoTrim(text) == text

\* str::trim
Trim(text) == TrimEnd(TrimStart(text))

ParseError == [cmd |-> "error"]

\* #[serde(default = ...)]: a missing field takes its default
Field(obj, f, dflt) == IF f \in DOMAIN obj THEN obj[f] ELSE dflt

\* Deserialize for Request (tag = "cmd", rename_all = "snake_case"): the
\* required fields must be present, u32 fields must be in range.
Deserialize(obj) ==
    IF "cmd" \notin DOMAIN obj THEN ParseError
    ELSE IF obj.cmd = "smoke"
    THEN IF "n" \in DOMAIN obj /\ IsU32(obj.n)
         THEN [cmd |-> "smoke", n |-> obj.n]
         ELSE ParseError
    ELSE IF obj.cmd = "smoke_sweep"
    THEN IF "sizes" \in DOMAIN obj
            /\ \A k \in 1..Len(obj.sizes) : IsU32(obj.sizes[k])
         THEN [cmd |-> "smoke_sweep", sizes |-> obj.sizes]
         ELSE ParseError
    ELSE IF obj.cmd = "fluid_init"
    THEN IF {"width", "height"} \subseteq DOMAIN obj
            /\ IsU32(obj.width) /\ IsU32(obj.height)
         THEN [cmd |-> "fluid_init", width |-> obj.width, height |-> obj.height]
         ELSE ParseError
    ELSE IF obj.cmd = "fluid_step"
    THEN IF {"width", "height"} \subseteq DOMAIN obj
            /\ IsU32(obj.width) /\ IsU32(obj.height)
            /\ IsU32(Field(obj, "steps", default_steps))
            /\ IsU32(Field(obj, "jacobi_iters", default_jacobi))
         THEN [cmd |-> "fluid_step",
               width |-> obj.width,
               height |-> obj.height,
               steps |-> Field(obj, "steps", default_steps),
               dt |-> Field(obj, "dt", default_dt),
               fade |-> Field(obj, "fade", default_fade),
               jacobi_iters |-> Field(obj, "jacobi_iters", default_jacobi)]
         ELSE ParseError
    ELSE ParseError

\* serde_json::from_str: one JSON value with whitespace around it
from_str(text) ==
    IF Len(Trim(text)) = 1 /\ Trim(text)[1].t = "json"
    THEN Deserialize(Trim(text)[1].v)
    ELSE ParseError

\* io::stdin().read_to_string fails on bytes that are not UTF-8
ReadFails(text) == \E k \in 1..Len(text) : text[k] = BadUtf8


(* ------------------------------ run_smoke ----------------------------- *)
\* Values read back are kept as their difference from the expected value
\* (i as f32) + 1.0, in units of 1e-6, or as NaN.  A backend that computes
\* data[i] + 1.0 correctly leaves no difference anywhere; the memory read back
\* is given by the indices that differ.
TOL == 10

Diff(d) == [nan |-> FALSE, d |-> d]

NaN == [nan |-> TRUE, d |-> 0]

Abs(a) == IF a < 0 THEN -a ELSE a

\* What the backend may leave in the readback buffer of run_smoke(n).
SmokeReadbacks(n) ==
    { <<>>,
      (0 :> Diff(TOL)),
      (10 :> Diff(-(TOL + 1))),
      (0 :> Diff(TOL + 1)) @@ ((n - 1) :> Diff(TOL * TOL)),
      ((n - 1) :> NaN) }

\* One iteration of the loop over out: err = (v - expected).abs(); a NaN err
\* is not > 1e-5 and f32::max keeps the other operand.  (mismatch_count is a
\* u32 and counts at most n <= u32::MAX indices: it cannot wrap.)
SmokeLoopBody(acc, e) ==
    [mismatch_count |->
        IF ~e.nan /\ Abs(e.d) > TOL
        THEN acc.mismatch_count + 1
        ELSE acc.mismatch_count,
     max_abs_error |->
        IF e.nan THEN acc.max_abs_error ELSE Max(acc.max_abs_error, Abs(e.d))]

RECURSIVE SmokeLoop(_, _, _)
\* The loop over the indices, in increasing order; an index whose value is the
\* expected one has err = 0.0 and leaves both accumulators as they are.
SmokeLoop(acc, rb, todo) ==
    IF todo = {} THEN acc
    ELSE LET i == CHOOSE k \in todo : \A j \in todo : k <= j
         IN SmokeLoop(SmokeLoopBody(acc, rb[i]), rb, todo \ {i})

\* the response with ok: true written out, as in the fluid responses
SmokeResponseAlwaysOk(n, rb) ==
    LET st == SmokeLoop([mismatch_count |-> 0, max_abs_error |-> 0], rb, DOMAIN rb)
    IN [ok |-> TRUE,
        kind |-> "smoke",
        n |-> n,
        mismatch_count |-> st.mismatch_count,
        max_abs_error |-> st.max_abs_error]

\* The SmokeResponse run_smoke(n) builds from the mapped readback memory.
SmokeResponse(n, rb) ==
    LET st == SmokeLoop([mismatch_count |-> 0, max_abs_error |-> 0], rb, DOMAIN rb)
    IN [ok |-> st.mismatch_count = 0 /\ st.max_abs_error <= TOL,
        kind |-> "smoke",
        n |-> n,
        mismatch_count |-> st.mismatch_count,
        max_abs_error |-> st.max_abs_error]

(* ------------------------------ main, run ----------------------------- *)
LastCall == calls[Len(calls)]

WorkDone == work.done = work.submitted

\* The sizes a sweep runs: for n in if sizes.is_empty() { &fallback } else { &sizes }
SweepSizes(r) == IF r.sizes = <<>> THEN fallback ELSE r.sizes

\* run(): read_to_string, the test for an absent input, from_str.
ReadRequest ==
    /\ pc = "stdin"
    /\ IF ReadFails(input)
       THEN /\ failure' = "stdin"
            /\ pc' = "failed"
            /\ req' = req
       ELSE IF Trim(input) = <<>>
       THEN /\ req' = [cmd |-> "smoke", n |-> DEFAULT_SMOKE_N]
            /\ pc' = "start"
            /\ failure' = failure
       ELSE IF from_str(input) = ParseError
       THEN /\ failure' = "parse"
            /\ pc' = "failed"
            /\ req' = req
       ELSE /\ req' = from_str(input)
            /\ pc' = "start"
            /\ failure' = failure
    /\ UNCHANGED <<args, step, queue, buf, last, ndisp, mapped, resp, wgdone, snap,
                   input, calls, work, readback, ret, runs, stdout, exit>>

\* Request::Smoke { n } => run_smoke(n.max(64))
SmokeArm ==
    /\ pc = "start"
    /\ req.cmd = "smoke"
    /\ calls' = Append(calls, [fn |-> "run_smoke", n |-> Max(req.n, SMOKE_MIN)])
    /\ pc' = "smoke"
    /\ UNCHANGED <<args, step, queue, buf, last, ndisp, mapped, resp, wgdone, snap,
                   input, req, work, readback, ret, runs, stdout, exit, failure>>

\* Request::SmokeSweep: the next iteration of the loop over the sizes
SweepArm ==
    /\ pc = "start"
    /\ req.cmd = "smoke_sweep"
    /\ Len(runs) < Len(SweepSizes(req))
    /\ calls' = Append(calls, [fn |-> "run_smoke",
                               n |-> Max(SweepSizes(req)[Len(runs) + 1], SMOKE_MIN)])
    /\ pc' = "smoke"
    /\ UNCHANGED <<args, step, queue, buf, last, ndisp, mapped, resp, wgdone, snap,
                   input, req, work, readback, ret, runs, stdout, exit, failure>>

\* the sweep answering ok when its last run is ok
SweepResponseLastOnly(rs) ==
    [ok |-> rs = <<>> \/ rs[Len(rs)].ok, kind |-> "smoke_sweep", runs |-> rs]

\* SmokeSweepResponse { ok: runs.iter().all(|r| r.ok), runs }
SweepResponse(rs) ==
    [ok |-> \A k \in 1..Len(rs) : rs[k].ok, kind |-> "smoke_sweep", runs |-> rs]

\* Request::SmokeSweep: the loop is over, the response is printed.
SweepRespond ==
    /\ pc = "start"
    /\ req.cmd = "smoke_sweep"
    /\ Len(runs) = Len(SweepSizes(req))
    /\ stdout' = Append(stdout, SweepResponse(runs))
    /\ exit' = "0"
    /\ pc' = "exited"
    /\ UNCHANGED <<args, step, queue, buf, last, ndisp, mapped, resp, wgdone, snap,
                   input, req, calls, work, readback, ret, runs, failure>>

\* create_device().await? fails in run_smoke, run_fluid_init or run_fluid_step
\* ("no GPU adapter", "request_device failed").
CreateDeviceFails ==
    /\ \/ pc \in {"smoke", "fluid_init"}
       \/ pc = "start" /\ req.cmd = "fluid_step"
    /\ failure' = "device"
    /\ pc' = "failed"
    /\ UNCHANGED <<args, step, queue, buf, last, ndisp, mapped, resp, wgdone, snap,
                   input, req, calls, work, readback, ret, runs, stdout, exit>>

\* run_smoke up to queue.submit: the device, the buffers, one encoder with the
\* dispatch and the copy into the readback buffer.
SmokeSubmit ==
    /\ pc = "smoke"
    /\ work' = [work EXCEPT !.submitted = @ + 1]
    /\ pc' = "smoke_wait"
    /\ UNCHANGED <<args, step, queue, buf, last, ndisp, mapped, resp, wgdone, snap,
                   input, req, calls, readback, ret, runs, stdout, exit, failure>>

\* The backend completes the command buffer of run_smoke.
BackendRunsSmoke ==
    /\ pc = "smoke_wait"
    /\ ~WorkDone
    /\ work' = [work EXCEPT !.done = @ + 1]
    /\ readback' \in SmokeReadbacks(LastCall.n)
    /\ UNCHANGED <<args, step, queue, buf, last, ndisp, mapped, resp, wgdone, snap,
                   pc, input, req, calls, ret, runs, stdout, exit, failure>>

\* run_smoke from map_wait(..)? to its return, and the use of the value in
\* run(): pushed to runs in a sweep, kept for println otherwise.
SmokeMapWait ==
    /\ pc = "smoke_wait"
    /\ WorkDone
    /\ IF req.cmd = "smoke_sweep"
       THEN /\ runs' = Append(runs, SmokeResponse(LastCall.n, readback))
            /\ pc' = "start"
            /\ ret' = ret
       ELSE /\ ret' = SmokeResponse(LastCall.n, readback)
            /\ pc' = "print"
            /\ runs' = runs
    /\ UNCHANGED <<args, step, queue, buf, last, ndisp, mapped, resp, wgdone, snap,
                   input, req, calls, work, readback, stdout, exit, failure>>

\* map_wait of run_smoke returns an error.
SmokeMapFails ==
    /\ pc = "smoke_wait"
    /\ failure' = "map"
    /\ pc' = "failed"
    /\ UNCHANGED <<args, step, queue, buf, last, ndisp, mapped, resp, wgdone, snap,
                   input, req, calls, work, readback, ret, runs, stdout, exit>>

\* Request::FluidInit => run_fluid_init(width.max(16), height.max(16), ..)
FluidInitArm ==
    /\ pc = "start"
    /\ req.cmd = "fluid_init"
    /\ calls' = Append(calls, [fn |-> "run_fluid_init",
                               width |-> Max(req.width, MIN_DIM),
                               height |-> Max(req.height, MIN_DIM)])
    /\ pc' = "fluid_init"
    /\ UNCHANGED <<args, step, queue, buf, last, ndisp, mapped, resp, wgdone, snap,
                   input, req, work, readback, ret, runs, stdout, exit, failure>>

\* run_fluid_init up to queue.submit
FluidInitSubmit ==
    /\ pc = "fluid_init"
    /\ work' = [work EXCEPT !.submitted = @ + 1]
    /\ pc' = "init_wait"
    /\ UNCHANGED <<args, step, queue, buf, last, ndisp, mapped, resp, wgdone, snap,
                   input, req, calls, readback, ret, runs, stdout, exit, failure>>

\* The backend completes the init dispatch of run_fluid_init.
BackendRunsInit ==
    /\ pc = "init_wait"
    /\ ~WorkDone
    /\ work' = [work EXCEPT !.done = @ + 1]
    /\ UNCHANGED <<args, step, queue, buf, last, ndisp, mapped, resp, wgdone, snap,
                   pc, input, req, calls, readback, ret, runs, stdout, exit, failure>>

\* Unsigned integers wider than the model's own are kept as little-endian
\* sequences of 8-bit limbs: 4 limbs for a u32, 8 for a 64-bit usize.
LIMB == 2^8

Limbs4(v) == [k \in 1..4 |-> (v \div (LIMB ^ (k - 1))) % LIMB]

LimbAt(a, k) == IF k \in DOMAIN a THEN a[k] ELSE 0

RECURSIVE MulLimbs(_, _, _, _)
\* Limbs k..8 of the product of two u32 in 64 bits, carry coming in.
MulLimbs(a, b, k, carry) ==
    IF k > 8 THEN <<>>
    ELSE LET col == carry + LimbAt(a, 1) * LimbAt(b, k)
                          + LimbAt(a, 2) * LimbAt(b, k - 1)
                          + LimbAt(a, 3) * LimbAt(b, k - 2)
                          + LimbAt(a, 4) * LimbAt(b, k - 3)
         IN <<col % LIMB>> \o MulLimbs(a, b, k + 1, col \div LIMB)

\* (width as usize) * (height as usize): two values below 2^32 never
\* overflow 64 bits.
CellsUsize(width, height) == MulLimbs(Limbs4(width), Limbs4(height), 1, 0)

\* x as u32: the low 32 bits
AsU32(x) == SubSeq(x, 1, 4)

\* FluidInitResponse { ok: true, width, height, initialized_cells: cells as u32 }
FluidInitResponse(width, height) ==
    [ok |-> TRUE,
     kind |-> "fluid_init",
     width |-> width,
     height |-> height,
     initialized_cells |-> AsU32(CellsUsize(width, height))]

\* let _ = device.poll(wait_indefinitely()) returns Ok once the submitted work
\* is done; run_fluid_init returns its response.
FluidInitWaitOk ==
    /\ pc = "init_wait"
    /\ WorkDone
    /\ ret' = FluidInitResponse(LastCall.width, LastCall.height)
    /\ pc' = "print"
    /\ UNCHANGED <<args, step, queue, buf, last, ndisp, mapped, resp, wgdone, snap,
                   input, req, calls, work, readback, runs, stdout, exit, failure>>

\* device.poll returns Err; `let _ =` drops it and run_fluid_init returns the
\* same response.
FluidInitWaitErr ==
    /\ pc = "init_wait"
    /\ work' = [work EXCEPT !.wait_err = TRUE]
    /\ ret' = FluidInitResponse(LastCall.width, LastCall.height)
    /\ pc' = "print"
    /\ UNCHANGED <<args, step, queue, buf, last, ndisp, mapped, resp, wgdone, snap,
                   input, req, calls, readback, runs, stdout, exit, failure>>

\* Request::FluidStep => run_fluid_step(width.max(16), .., jacobi_iters.clamp(5, 120), ..)
FluidStepArm ==
    /\ req.cmd = "fluid_step"
    /\ RunFluidStep({req.width}, {req.height}, {req.steps}, {req.jacobi_iters})
    /\ calls' = Append(calls, [fn |-> "run_fluid_step",
                               width |-> args'.width,
                               height |-> args'.height,
                               steps |-> args'.steps,
                               dt |-> Max(req.dt, DT_MIN),
                               fade |-> Clamp(req.fade, FADE_LO, FADE_HI),
                               jacobi_iters |-> args'.jacobi_iters])
    /\ UNCHANGED <<input, req, work, readback, ret, runs, stdout, exit, failure>>

\* run_fluid_step after the buffers are created; a failed map_wait is the
\* error the request ends with.
FluidStepHost ==
    /\ HostNext
    /\ failure' = (IF pc' = "failed" THEN "map" ELSE failure)
    /\ UNCHANGED <<input, req, calls, work, readback, ret, runs, stdout, exit>>

\* The device runs the commands of run_fluid_step.
FluidStepGpu ==
    /\ GpuExec
    /\ UNCHANGED runVars

\* println!("{}", to_string_pretty(&resp)) of a smoke or fluid_init response,
\* then Ok(()) and exit status 0
PrintResponse ==
    /\ pc = "print"
    /\ stdout' = Append(stdout, ret)
    /\ exit' = "0"
    /\ pc' = "exited"
    /\ UNCHANGED <<args, step, queue, buf, last, ndisp, mapped, resp, wgdone, snap,
                   input, req, calls, work, readback, ret, runs, failure>>

\* println! of the FluidStepResponse run_fluid_step returned
PrintFluidStep ==
    /\ pc = "done"
    /\ stdout' = Append(stdout, [ok |-> TRUE,
                                 kind |-> "fluid_step",
                                 width |-> args.width,
                                 height |-> args.height,
                                 steps |-> args.steps])
    /\ exit' = "0"
    /\ pc' = "exited"
    /\ UNCHANGED <<args, step, queue, buf, last, ndisp, mapped, resp, wgdone, snap,
                   input, req, calls, work, readback, ret, runs, failure>>

\* main() without std::process::exit(1)
MainErrorExitZero ==
    /\ pc = "failed"
    /\ stdout' = Append(stdout, [ok |-> FALSE, kind |-> "error", error |-> failure])
    /\ exit' = "0"
    /\ pc' = "exited"
    /\ UNCHANGED <<args, step, queue, buf, last, ndisp, mapped, resp, wgdone, snap,
                   input, req, calls, work, readback, ret, runs, failure>>

\* main(): run() returned Err: the error object is printed, exit(1)
MainError ==
    /\ pc = "failed"
    /\ stdout' = Append(stdout, [ok |-> FALSE, kind |-> "error", error |-> failure])
    /\ exit' = "1"
    /\ pc' = "exited"
    /\ UNCHANGED <<args, step, queue, buf, last, ndisp, mapped, resp, wgdone, snap,
                   input, req, calls, work, readback, ret, runs, failure>>

\* The JSON objects tried on stdin: requests below, inside and above the
\* ranges of their fields, with and without the optional fields, and objects
\* that are no Request.
SmokeJsons ==
    { [cmd |-> "smoke", n |-> 0],
      [cmd |-> "smoke", n |-> SMOKE_MIN + 1] }

SweepJsons ==
    { [cmd |-> "smoke_sweep", sizes |-> <<>>],
      [cmd |-> "smoke_sweep", sizes |-> <<SMOKE_MIN + 1, 0>>] }

FluidInitJsons ==
    { [cmd |-> "fluid_init", width |-> 0, height |-> 0],
      [cmd |-> "fluid_init", width |-> MaxWidthReq, height |-> MIN_DIM],
      [cmd |-> "fluid_init", width |-> 2^16, height |-> 2^16] }

FluidStepJsons ==
    { [cmd |-> "fluid_step", width |-> 0, height |-> 0, steps |-> 0, dt |-> 0,
       fade |-> FADE_LO - 1, jacobi_iters |-> JACOBI_LO - 1],
      [cmd |-> "fluid_step", width |-> MaxWidthReq, height |-> MIN_DIM + 1,
       steps |-> MaxStepsReq, dt |-> DT_MIN + 1, fade |-> FADE_LO + 1,
       jacobi_iters |-> MaxJacobiReq],
      [cmd |-> "fluid_step", width |-> MIN_DIM, height |-> MIN_DIM,
       fade |-> FADE_HI + 1, jacobi_iters |-> JACOBI_HI + 1] }

BadJsons ==
    { [cmd |-> "smoke"],
      [cmd |-> "smoke", n |-> -1],
      [cmd |-> "fluid_step", width |-> MIN_DIM],
      [cmd |-> "bogus"],
      [n |-> SMOKE_MIN] }

Jsons == SmokeJsons \cup SweepJsons \cup FluidInitJsons \cup FluidStepJsons \cup BadJsons

Inputs ==
    { <<>>, <<Space>>, <<Space, Space>>, <<Junk>>, <<Space, Junk>>, <<BadUtf8>> }
    \cup { <<Json(o)>> : o \in Jsons }
    \cup { <<Space, Json(o), Space>> : o \in SmokeJsons }
    \cup { <<Json(o), Junk>> : o \in SmokeJsons }
    \cup { <<Json(o), BadUtf8>> : o \in SmokeJsons }

\* The process starts with some text on stdin.
InitRun ==
    /\ pc = "stdin"
    /\ args = [width |-> 0, height |-> 0, steps |-> 0, jacobi_iters |-> 0]
    /\ step = 0
    /\ queue = <<>>
    /\ buf = [n \in BufNames |-> <<>>]
    /\ last = Executed(NoCmd, <<>>)
    /\ ndisp = [k \in Pipelines |-> 0]
    /\ mapped = {}
    /\ resp = "none"
    /\ wgdone = {}
    /\ snap = <<>>
    /\ input \in Inputs
    /\ RunInit
    /\ num = NumOff

NextRun ==
    /\ \/ ReadRequest
       \/ SmokeArm \/ SweepArm \/ SweepRespond
       \/ CreateDeviceFails
       \/ SmokeSubmit \/ BackendRunsSmoke \/ SmokeMapWait \/ SmokeMapFails
       \/ FluidInitArm \/ FluidInitSubmit \/ BackendRunsInit
       \/ FluidInitWaitOk \/ FluidInitWaitErr
       \/ FluidStepArm \/ FluidStepHost \/ FluidStepGpu
       \/ PrintResponse \/ PrintFluidStep \/ MainError
    /\ UNCHANGED num

\* The whole process: main, run and the request it serves.
SpecRun == InitRun /\ [][NextRun]_vars

(* --------------------- arithmetic of the kernels ---------------------- *)
\* the 1e-4 added to the tangent before normalize: the smallest unit
EPS_TANGENT == 1

\* The kernels and the host statistics compute in f32.  Here a real value v
\* is the integer nearest to v * FX (fixed point), and every product and
\* quotient is rounded to the nearest unit.  The integers of the checker are
\* 32 bits wide: MulFx splits its first factor so that no intermediate
\* product leaves that range for the magnitudes that occur (below 2^7).
FX == 2^12

\* the rational n / d (d > 0)
Fx(n, d) == (2 * n * FX + d) \div (2 * d)

MulFx(a, b) == (a \div FX) * b + (((a % FX) * b + FX \div 2) \div FX)

\* a / b for b > 0
DivFx(a, b) == (a * FX + b \div 2) \div b

RECURSIVE IsqrtFrom(_, _)
IsqrtFrom(n, r) ==
    LET s == (r + n \div r) \div 2
    IN  IF s >= r THEN r ELSE IsqrtFrom(n, s)

\* the integer square root of n >= 0 (Newton's iteration from above)
Isqrt(n) == IF n < 2 THEN n ELSE IsqrtFrom(n, n)

\* length(vec2(x, y)); long vectors are measured in units of 16
length(x, y) ==
    IF Max(Abs(x), Abs(y)) >= 2^14
    THEN 16 * Isqrt((x \div 16) * (x \div 16) + (y \div 16) * (y \div 16))
    ELSE Isqrt(x * x + y * y)

\* exp(-t) for 0 <= t <= 1/4: 1 - t + t^2/2 - t^3/6 + t^4/24
ExpNegSmall(t) ==
    LET t2 == MulFx(t, t)
        t3 == MulFx(t2, t)
        t4 == MulFx(t3, t)
    IN  FX - t + t2 \div 2 - t3 \div 6 + t4 \div 24

RECURSIVE ExpNeg(_)
\* exp(-t) for t >= 0: exp(-t) = exp(-t/2)^2
ExpNeg(t) ==
    IF t <= FX \div 4
    THEN ExpNegSmall(t)
    ELSE LET h == ExpNeg(t \div 2) IN MulFx(h, h)

\* mix(a, b, t) = a * (1 - t) + b * t
mix(a, b, t) == MulFx(a, FX - t) + MulFx(b, t)

(* ------------------------ the kernels on values ----------------------- *)
\* A field is a function from the cell indices 0 .. width * height - 1; a
\* velocity is a pair <<x, y>>.  P holds width, height and the f32
\* parameters dt, fade, dye_radius, impulse of the uniform buffer.
Grid(P) == 0 .. (P.width * P.height - 1)

ZeroField(P) == [i \in Grid(P) |-> 0]

\* (vec2(f32(gid.x), f32(gid.y)) + 0.5) / vec2(f32(width), f32(height)) - 0.5
Centre(x, y, P) ==
    << DivFx(((2 * x + 1) * FX) \div 2, P.width * FX) - FX \div 2,
       DivFx(((2 * y + 1) * FX) \div 2, P.height * FX) - FX \div 2 >>

\* FLUID_INIT_WGSL: the velocity and the dye of cell (x, y)
InitValue(x, y, P) ==
    LET cc == Centre(x, y, P)
        r == length(cc[1], cc[2])
        k == MulFx(P.impulse, ExpNeg(30 * MulFx(r, r)))
    IN  [ vel |-> << MulFx(-cc[2], k), MulFx(cc[1], k) >>,
          dye |-> IF r <= P.dye_radius
                  THEN FX - DivFx(r, Max(P.dye_radius, Fx(1, 100)))
                  ELSE 0 ]

\* The 2x2 block a bilinear sample at (px, py) reads, and its weights; the
\* position is first clamped to [0.0, f32(size) - 1.001].
SampleAt(px, py, P) ==
    LET x == Clamp(px, 0, (P.width - 1) * FX - Fx(1, 1000))
        y == Clamp(py, 0, (P.height - 1) * FX - Fx(1, 1000))
        x0 == x \div FX
        y0 == y \div FX
    IN  [ a |-> idx(c(x0, P.width), c(y0, P.height), P),
          b |-> idx(c(x0 + 1, P.width), c(y0, P.height), P),
          c |-> idx(c(x0, P.width), c(y0 + 1, P.height), P),
          d |-> idx(c(x0 + 1, P.width), c(y0 + 1, P.height), P),
          fx |-> x % FX,
          fy |-> y % FX ]

\* sample_dye(pos): mix(mix(a, b, fx), mix(c, d, fx), fy)
sample_dye(src, px, py, P) ==
    LET s == SampleAt(px, py, P)
    IN  mix(mix(src[s.a], src[s.b], s.fx), mix(src[s.c], src[s.d], s.fx), s.fy)

\* sample_vel(pos): the same sample of both components of a velocity field
sample_vel(src, px, py, P) ==
    LET s == SampleAt(px, py, P)
    IN  << mix(mix(src[s.a][1], src[s.b][1], s.fx),
               mix(src[s.c][1], src[s.d][1], s.fx), s.fy),
           mix(mix(src[s.a][2], src[s.b][2], s.fx),
               mix(src[s.c][2], src[s.d][2], s.fx), s.fy) >>

\* FLUID_ADVECT_VEL_WGSL: the velocity stored at cell (x, y)
AdvectVelValue(x, y, P, src) ==
    IF AdvectVelEdge(x, y, P)
    THEN <<0, 0>>
    ELSE LET v == src[idx(x, y, P)]
             s == sample_vel(src, x * FX - MulFx(P.dt, v[1]),
                                  y * FX - MulFx(P.dt, v[2]), P)
             damped == << MulFx(s[1], FX - Fx(1, 1000)),
                          MulFx(s[2], FX - Fx(1, 1000)) >>
             relx == ((2 * x - P.width) * FX) \div 2
             rely == ((2 * y - P.height) * FX) \div 2
             r == DivFx(length(relx, rely), Max(Min(P.width, P.height) * FX, FX))
             tx == EPS_TANGENT - rely
             ty == relx
             tl == length(tx, ty)
             falloff == FX - DivFx(r, Max(P.dye_radius, Fx(1, 1000)))
             k == MulFx(MulFx(P.impulse, P.dt), falloff)
         IN  IF r <= P.dye_radius
             THEN << damped[1] + MulFx(DivFx(tx, tl), k),
                     damped[2] + MulFx(DivFx(ty, tl), k) >>
             ELSE damped

\* FLUID_DIVERGENCE_WGSL: 0.5 * ((vr - vl) + (vt - vb)) of the velocity field
\* vel at cell (x, y)
DivergenceValue(x, y, P, vel) ==
    LET nb == Neighbours(x, y, P)
    IN  ((vel[nb[2]][1] - vel[nb[1]][1]) + (vel[nb[4]][2] - vel[nb[3]][2])) \div 2

\* FLUID_JACOBI_WGSL: (pl + pr + pb + pt - d) * 0.25
JacobiValue(x, y, P, p_in, div) ==
    LET nb == Neighbours(x, y, P)
    IN  (p_in[nb[1]] + p_in[nb[2]] + p_in[nb[3]] + p_in[nb[4]]
           - div[idx(x, y, P)] + 2) \div 4

\* FLUID_PROJECT_WGSL: select(vel - grad, vec2(0, 0), edge)
ProjectValue(x, y, P, vel, pressure) ==
    LET nb == Neighbours(x, y, P)
        gx == (pressure[nb[2]] - pressure[nb[1]]) \div 2
        gy == (pressure[nb[4]] - pressure[nb[3]]) \div 2
        v == vel[idx(x, y, P)]
    IN  IF ProjectEdge(x, y, P) THEN <<0, 0>> ELSE << v[1] - gx, v[2] - gy >>

\* FLUID_ADVECT_DYE_WGSL: sample_dye(pos - dt * vel[id])
AdvectDyeValue(x, y, P, vel, dye_src) ==
    LET v == vel[idx(x, y, P)]
    IN  sample_dye(dye_src, x * FX - MulFx(P.dt, v[1]),
                            y * FX - MulFx(P.dt, v[2]), P)

\* select(0.0, 0.02, r <= p.dye_radius * 0.4)
FadeSource(x, y, P) ==
    LET cc == Centre(x, y, P)
    IN  IF length(cc[1], cc[2]) <= MulFx(P.dye_radius, Fx(4, 10))
        THEN Fx(2, 100)
        ELSE 0

\* the fade kernel without the factor p.fade
FadeValueUnfaded(x, y, P, src) == src[idx(x, y, P)] + FadeSource(x, y, P)

\* FLUID_FADE_WGSL: dst[id] = src[id] * p.fade + source
FadeValue(x, y, P, src) ==
    MulFx(src[idx(x, y, P)], P.fade) + FadeSource(x, y, P)


RECURSIVE SumOver(_, _, _)
\* the sum of f[lo .. hi], halving the range
SumOver(f, lo, hi) ==
    IF lo > hi THEN 0
    ELSE IF lo = hi THEN f[lo]
    ELSE LET mid == (lo + hi) \div 2
         IN  SumOver(f, lo, mid) + SumOver(f, mid + 1, hi)

RECURSIVE MaxOver(_, _, _)
\* the maximum of f[lo .. hi] and 0, halving the range
MaxOver(f, lo, hi) ==
    IF lo > hi THEN 0
    ELSE IF lo = hi THEN Max(0, f[lo])
    ELSE LET mid == (lo + hi) \div 2
         IN  Max(MaxOver(f, lo, mid), MaxOver(f, mid + 1, hi))

\* the host's neighbour indices with xp = x + 1, the .min(w - 1) left out
HostNeighboursNoMin(x, y, w, h) ==
    << y * w + (IF x >= 1 THEN x - 1 ELSE 0),
       y * w + (x + 1),
       (IF y >= 1 THEN y - 1 ELSE 0) * w + x,
       Min(y + 1, h - 1) * w + x >>

\* run_fluid_step, lines 533-541: the indices of vl, vr, vb, vt for cell
\* (x, y) of a w x h grid, with xm = x.saturating_sub(1), xp = (x + 1).min(w - 1),
\* ym = y.saturating_sub(1), yp = (y + 1).min(h - 1) in usize
HostNeighbours(x, y, w, h) ==
    << y * w + (IF x >= 1 THEN x - 1 ELSE 0),
       y * w + Min(x + 1, w - 1),
       (IF y >= 1 THEN y - 1 ELSE 0) * w + x,
       Min(y + 1, h - 1) * w + x >>

\* lines 538-542: d = 0.5 * ((vr - vl) + (vt - vb))
HostDivergence(x, y, P, vel) ==
    LET nb == HostNeighbours(x, y, P.width, P.height)
    IN  ((vel[nb[2]][1] - vel[nb[1]][1]) + (vel[nb[4]][2] - vel[nb[3]][2])) \div 2

\* run_fluid_step, lines 528-556: max_div and dye_total of the read back
\* vel_a and dye_a
max_div(P, vel) ==
    MaxOver([i \in Grid(P) |->
                Abs(HostDivergence(i % P.width, i \div P.width, P, vel))],
            0, P.width * P.height - 1)

dye_total(P, dye) == SumOver(dye, 0, P.width * P.height - 1)

(* -------------------- fluid_step on values (numeric) ------------------ *)
\* The buffers after the dispatch cmd: each kernel loads from and stores to
\* the buffers its bind group names.
NumDispatch(b, cmd, P) ==
    LET bg == cmd.bg
        X(i) == i % P.width
        Y(i) == i \div P.width
    IN  CASE cmd.pipeline = "init" ->
               [b EXCEPT
                  ![bg[1]] = [i \in Grid(P) |-> InitValue(X(i), Y(i), P).vel],
                  ![bg[2]] = [i \in Grid(P) |-> InitValue(X(i), Y(i), P).dye]]
          [] cmd.pipeline = "advect_vel" ->
               [b EXCEPT ![bg[2]] =
                  [i \in Grid(P) |-> AdvectVelValue(X(i), Y(i), P, b[bg[1]])]]
          [] cmd.pipeline = "divergence" ->
               [b EXCEPT ![bg[2]] =
                  [i \in Grid(P) |-> DivergenceValue(X(i), Y(i), P, b[bg[1]])]]
          [] cmd.pipeline = "jacobi" ->
               [b EXCEPT ![bg[3]] =
                  [i \in Grid(P) |->
                      JacobiValue(X(i), Y(i), P, b[bg[1]], b[bg[2]])]]
          [] cmd.pipeline = "project" ->
               [b EXCEPT ![bg[3]] =
                  [i \in Grid(P) |->
                      ProjectValue(X(i), Y(i), P, b[bg[1]], b[bg[2]])]]
          [] cmd.pipeline = "advect_dye" ->
               [b EXCEPT ![bg[3]] =
                  [i \in Grid(P) |->
                      AdvectDyeValue(X(i), Y(i), P, b[bg[1]], b[bg[2]])]]
          [] cmd.pipeline = "fade" ->
               [b EXCEPT ![bg[2]] =
                  [i \in Grid(P) |-> FadeValue(X(i), Y(i), P, b[bg[1]])]]

\* The buffers after a whole command.
NumCommand(b, cmd, P) ==
    CASE cmd.op = "dispatch" -> NumDispatch(b, cmd, P)
      [] cmd.op = "clear" -> [b EXCEPT ![cmd.dst] = ZeroField(P)]
      [] cmd.op = "copy" -> [b EXCEPT ![cmd.dst] = b[cmd.src]]

\* The buffers run_fluid_step creates, zero-initialised by the backend.
NumBuffers(P) ==
    [n \in BufNames |->
        IF n \in {"vel_a", "vel_b", "vel_read"} THEN [i \in Grid(P) |-> <<0, 0>>]
        ELSE ZeroField(P)]

RECURSIVE StepsCommands(_, _)
\* the encoders of steps 1 .. s, in submission order
StepsCommands(P, s) ==
    IF s = 0 THEN <<>> ELSE StepsCommands(P, s - 1) \o StepCommands(P, s)

\* Every command run_fluid_step submits, in submission order.
AllCommands(P) ==
    SeedCommands(P) \o StepsCommands(P, P.steps) \o ReadbackCommands(P.steps + 1)

\* The requests served: the grid, the step count and the f32 parameters;
\* jacobi_iters is chosen per request.
NumRequests ==
    { [width |-> MIN_DIM + 1, height |-> MIN_DIM + 1, steps |-> 4,
       dt |-> FX, fade |-> Fx(default_fade, 10000),
       dye_radius |-> Fx(15, 100), impulse |-> 25 * FX],
      [width |-> MIN_DIM, height |-> MIN_DIM, steps |-> default_steps,
       dt |-> Fx(default_dt, 10000),
       fade |-> Fx(default_fade, 10000),
       dye_radius |-> Fx(15, 100), impulse |-> 25 * FX],
      [width |-> MIN_DIM, height |-> MIN_DIM, steps |-> MaxNumSteps,
       dt |-> Fx(default_dt, 10000),
       fade |-> Fx(FADE_LO, 10000),
       dye_radius |-> Fx(15, 100), impulse |-> 25 * FX],
      [width |-> MIN_DIM + 1, height |-> MIN_DIM + 1, steps |-> 2,
       dt |-> Fx(default_dt, 10000),
       fade |-> Fx(FADE_LO, 10000),
       dye_radius |-> Fx(15, 100), impulse |-> 0],
      [width |-> MIN_DIM, height |-> MIN_DIM, steps |-> 2,
       dt |-> Fx(default_dt, 10000),
       fade |-> Fx(FADE_HI, 10000),
       dye_radius |-> Fx(15, 100), impulse |-> 25 * FX],
      [width |-> MIN_DIM + 1, height |-> MIN_DIM + 1, steps |-> 4 * MaxNumSteps,
       dt |-> Fx(default_dt, 10000),
       fade |-> Fx(default_fade, 10000),
       dye_radius |-> Fx(15, 100), impulse |-> 0] }

\* The harness sends the same request again with another jacobi_iters;
\* reports keeps max_divergence and dye_total of each response.
InitNum ==
    /\ pc = "start"
    /\ args = [width |-> 0, height |-> 0, steps |-> 0, jacobi_iters |-> 0]
    /\ step = 0
    /\ queue = <<>>
    /\ buf = [n \in BufNames |-> <<>>]
    /\ last = Executed(NoCmd, <<>>)
    /\ ndisp = [k \in Pipelines |-> 0]
    /\ mapped = {}
    /\ resp = "none"
    /\ wgdone = {}
    /\ snap = <<>>
    /\ input = <<>>
    /\ RunInit
    /\ \E r \in NumRequests :
          num = [stage |-> "idle", P |-> r @@ [jacobi_iters |-> 0],
                 todo |-> <<>>, bufs |-> NumBuffers(r), reports |-> <<>>]

\* run(): Request::FluidStep with jacobi_iters clamped; run_fluid_step
\* creates its buffers and records its encoders.
NumRequest ==
    /\ num.stage = "idle"
    /\ \E j \in ReqJacobi :
          LET P == [num.P EXCEPT !.jacobi_iters = Clamp(j, JACOBI_LO, JACOBI_HI)]
          IN  /\ P.jacobi_iters \notin DOMAIN num.reports
              /\ num' = [num EXCEPT !.stage = "run", !.P = P,
                                    !.todo = AllCommands(P),
                                    !.bufs = NumBuffers(P)]

\* The device executes the next submitted command.
NumExec ==
    /\ num.stage = "run"
    /\ num.todo # <<>>
    /\ num' = [num EXCEPT !.bufs = NumCommand(num.bufs, Head(num.todo), num.P),
                          !.todo = Tail(num.todo)]

\* The statistics over the mapped read buffers, and the response.
NumRespond ==
    /\ num.stage = "run"
    /\ num.todo = <<>>
    /\ num' = [num EXCEPT
                 !.stage = "idle",
                 !.reports = num.reports @@
                    (num.P.jacobi_iters :>
                        [max_divergence |-> max_div(num.P, num.bufs["vel_read"]),
                         dye_total |-> dye_total(num.P, num.bufs["dye_read"])])]

NextNum ==
    /\ NumRequest \/ NumExec \/ NumRespond
    /\ UNCHANGED <<pc, args, step, queue, buf, last, ndisp, mapped, resp,
                   wgdone, snap>>
    /\ UNCHANGED runVars

\* fluid_step computed on values, for a request repeated over jacobi_iters.
SpecNum == InitNum /\ [][NextNum]_vars

(* ------------------------------ claims -------------------------------- *)
PressureBufs == {"pressure_a", "pressure_b"}

HeadIs(pipeline) == queue # <<>> /\ Head(queue).pipeline = pipeline

\* C1: in every step the pressure buffer bound as input of the Project
\* dispatch (binding 2) is pressure A when jacobi_iters is even and pressure B
\* when it is odd, and when Project starts every cell of that buffer was
\* stored by the last Jacobi dispatch (iteration jacobi_iters - 1) of the
\* same step.
C1_ProjectReadsLastJacobi ==
    last.cmd.pipeline = "project" =>
        /\ last.cmd.bg[2] =
              (IF args.jacobi_iters % 2 = 0 THEN "pressure_a" ELSE "pressure_b")
        /\ last.rd[last.cmd.bg[2]] =
              {Stamp("jacobi", last.cmd.step, args.jacobi_iters - 1)}

C1_Witness ==
    /\ last.cmd.pipeline = "project"
    /\ last.cmd.step = 2
    /\ args.jacobi_iters % 2 = 1

\* C2: Jacobi iteration it reads pressure A and writes pressure B when it is
\* even, reads B and writes A when it is odd; iteration it >= 1 reads a
\* buffer whose every cell was stored by iteration it - 1 of the same step,
\* iteration 0 reads a buffer whose every cell is a zero stored by this step's
\* clear; and the buffer it writes then holds its stores in every cell.
C2_JacobiPingPong ==
    last.cmd.pipeline = "jacobi" =>
        LET it == last.cmd.it
            pin == last.cmd.bg[1]
            pout == last.cmd.bg[3]
        IN /\ pin = (IF it % 2 = 0 THEN "pressure_a" ELSE "pressure_b")
           /\ pout = (IF it % 2 = 0 THEN "pressure_b" ELSE "pressure_a")
           /\ pin \in CmdReads(last.cmd)
           /\ CmdWrites(last.cmd) = {pout}
           /\ last.rd[pin] =
                 (IF it = 0 THEN {Stamp("clear", last.cmd.step, 0)}
                  ELSE {Stamp("jacobi", last.cmd.step, it - 1)})
           /\ (wgdone = {} => Stamps(buf[pout]) = {CmdStamp(last.cmd)})

C2_Witness ==
    /\ last.cmd.pipeline = "jacobi"
    /\ last.cmd.it = args.jacobi_iters - 1
    /\ last.cmd.it % 2 = 1
    /\ last.cmd.step = 2

\* C3: when the first Jacobi iteration of a step is about to run, every cell
\* of pressure A and of pressure B is zero; and every pressure cell a Jacobi
\* or Project dispatch reads was stored in the step of that dispatch.
C3_PressureClearedEachStep ==
    /\ (HeadIs("jacobi") /\ Head(queue).it = 0 /\ wgdone = {}) =>
           /\ AllZero(buf["pressure_a"])
           /\ AllZero(buf["pressure_b"])
    /\ last.cmd.pipeline \in {"jacobi", "project"} =>
           \A n \in PressureBufs \cap DOMAIN last.rd :
               \A st \in last.rd[n] : st[2] = last.cmd.step

C3_Witness ==
    /\ HeadIs("jacobi")
    /\ Head(queue).it = 0
    /\ Head(queue).step = 2
    /\ ~AllZero(buf["vel_b"])

\* The place of a command in the order ClearPressure (A, then B),
\* AdvectVelocity, Divergence, Jacobi 0 .. jacobi_iters - 1, Project,
\* AdvectDye, Fade of step 1, then the same of step 2, ...; the seed pass is
\* place 0 and the two readback copies come last.
StageCount(P) == P.jacobi_iters + 7

StagePlace(cmd, P) ==
    CASE cmd.op = "clear" /\ cmd.dst = "pressure_a" -> 1
      [] cmd.op = "clear" /\ cmd.dst = "pressure_b" -> 2
      [] cmd.op = "copy" /\ cmd.dst = "vel_read"    -> 1
      [] cmd.op = "copy" /\ cmd.dst = "dye_read"    -> 2
      [] cmd.pipeline = "advect_vel" -> 3
      [] cmd.pipeline = "divergence" -> 4
      [] cmd.pipeline = "jacobi"     -> 5 + cmd.it
      [] cmd.pipeline = "project"    -> 5 + P.jacobi_iters
      [] cmd.pipeline = "advect_dye" -> 6 + P.jacobi_iters
      [] cmd.pipeline = "fade"       -> 7 + P.jacobi_iters
      [] OTHER -> 0

Ord(cmd, P) ==
    CASE cmd.op = "none"       -> 0 - 1
      [] cmd.pipeline = "init" -> 0
      [] OTHER -> (cmd.step - 1) * StageCount(P) + StagePlace(cmd, P)

\* C4: the submitted commands wait in exactly the order ClearPressure,
\* AdvectVelocity, Divergence, the Jacobi passes, Project, AdvectDye, Fade,
\* step after step; the next command to run is the successor of the last one
\* that ran; and when a stage has run, every cell of each buffer it writes
\* holds its store (it completed for all cells before the next one starts).
C4_StageOrder ==
    /\ queue # <<>> => Ord(Head(queue), args) = Ord(last.cmd, args) + 1
    /\ \A k \in 1..(Len(queue) - 1) :
           Ord(queue[k + 1], args) = Ord(queue[k], args) + 1
    /\ \A k \in 1..Len(queue) :
           queue[k].op # "copy" => StagePlace(queue[k], args) \in 1..StageCount(args)
                                   \/ queue[k].pipeline = "init"
    /\ (last.cmd.op \in {"dispatch", "clear"} /\ wgdone = {}) =>
           \A n \in CmdWrites(last.cmd) : Stamps(buf[n]) = {CmdStamp(last.cmd)}

C4_Witness ==
    /\ last.cmd.op = "copy"
    /\ last.cmd.dst = "dye_read"
    /\ args.steps = 2
    /\ args.width > MIN_DIM

InitsQueued == Cardinality({k \in 1..Len(queue) : queue[k].pipeline = "init"})

\* C5: the init kernel is dispatched exactly once per request: once the seed
\* encoder is submitted there is one init dispatch, queued or run, and never
\* another; every other command runs after it; it stores every cell of
\* velocity A and dye A; and these are what the first step's AdvectVelocity
\* (velocity A) and AdvectDye (dye A) read.
C5_InitOnce ==
    /\ pc \in {"start", "seed"} => InitsQueued + ndisp["init"] = 0
    /\ pc \notin {"start", "seed"} => InitsQueued + ndisp["init"] = 1
    /\ last.cmd.op \notin {"none"} => ndisp["init"] = 1
    /\ last.cmd.pipeline = "init" =>
           /\ CmdWrites(last.cmd) = {"vel_a", "dye_a"}
           /\ wgdone = {} =>
                 /\ Stamps(buf["vel_a"]) = {Stamp("init", 0, 0)}
                 /\ Stamps(buf["dye_a"]) = {Stamp("init", 0, 0)}
    /\ (last.cmd.pipeline = "advect_vel" /\ last.cmd.step = 1) =>
           /\ last.cmd.bg[1] = "vel_a"
           /\ last.rd["vel_a"] = {Stamp("init", 0, 0)}
    /\ (last.cmd.pipeline = "advect_dye" /\ last.cmd.step = 1) =>
           /\ last.cmd.bg[2] = "dye_a"
           /\ last.rd["dye_a"] = {Stamp("init", 0, 0)}

C5_Witness ==
    /\ pc = "done"
    /\ args.steps = 2
    /\ ndisp["init"] = 1
    /\ ndisp["advect_vel"] = 2

\* The edge cells of the grid: x = 0, x = width - 1, y = 0 or y = height - 1.
EdgeCells(P) ==
    {k \in 0..(P.width * P.height - 1) :
        \/ k % P.width = 0
        \/ k % P.width = P.width - 1
        \/ k \div P.width = 0
        \/ k \div P.width = P.height - 1}

\* C6: once a step has completed (its Fade has run), the current velocity
\* field, velocity A, holds the zero vector at every edge cell, in every later
\* state; and so does the velocity the host reads back.
C6_EdgeVelocityZero ==
    /\ (ndisp["fade"] >= 1 /\ wgdone = {}) =>
           \A k \in EdgeCells(args) : buf["vel_a"][k].z
    /\ pc \in {"map_dye", "stats", "done"} =>
           \A k \in EdgeCells(args) : buf["vel_read"][k].z

C6_Witness ==
    /\ pc = "done"
    /\ ndisp["fade"] = 2
    /\ args.width > MIN_DIM
    /\ ~AllZero(buf["vel_read"])

\* C7: for every step s >= 2, when AdvectVelocity of step s starts, every
\* cell of the velocity buffer it reads was stored by Project of step s - 1,
\* and when AdvectDye of step s starts, every cell of the dye buffer it reads
\* was stored by Fade of step s - 1.
C7_StepFeedsNextStep ==
    /\ (last.cmd.pipeline = "advect_vel" /\ last.cmd.step >= 2) =>
           last.rd[last.cmd.bg[1]] = {Stamp("project", last.cmd.step - 1, 0)}
    /\ (last.cmd.pipeline = "advect_dye" /\ last.cmd.step >= 2) =>
           last.rd[last.cmd.bg[2]] = {Stamp("fade", last.cmd.step - 1, 0)}

C7_Witness ==
    /\ last.cmd.pipeline = "advect_dye"
    /\ last.cmd.step = 2

\* C8: for every dispatch, submitted or run, the buffers bound to bindings
\* its kernel loads from and the buffers bound to bindings it stores to are
\* disjoint.
C8_NoInPlaceDispatch ==
    /\ \A k \in 1..Len(queue) :
           queue[k].op = "dispatch" =>
               CmdReads(queue[k]) \cap CmdWrites(queue[k]) = {}
    /\ last.cmd.op = "dispatch" =>
           CmdReads(last.cmd) \cap CmdWrites(last.cmd) = {}

C8_Witness ==
    /\ last.cmd.pipeline = "jacobi"
    /\ last.cmd.it = 1
    /\ HeadIs("jacobi")
    /\ \E k \in 1..Len(queue) : queue[k].pipeline = "fade"

\* The global invocation ids of a dispatch: gx * gy workgroups of
\* WG_SIZE x WG_SIZE invocations.
Invocations(cmd) ==
    (0..(cmd.gx * WG_SIZE - 1)) \X (0..(cmd.gy * WG_SIZE - 1))

RECURSIVE DispatchStores(_, _, _, _)
\* Every store that the invocations of workgroups 0..n-1 of a dispatch issue
\* when they all read the buffers b.
DispatchStores(cmd, P, b, n) ==
    IF n = 0 THEN <<>>
    ELSE DispatchStores(cmd, P, b, n - 1)
         \o WorkgroupStores(cmd, (n - 1) % cmd.gx, (n - 1) \div cmd.gx, P, b,
                            {}, 0, WG_SIZE * WG_SIZE - 1)

\* C9 for one dispatch about to start: the tasks issue one store for each
\* cell of each buffer the dispatch writes and no other store (so each output
\* cell has exactly one writing task), and no task loads from a location, or
\* samples a buffer, that a task of the dispatch stores to.
TasksIndependent(cmd, P, b) ==
    LET ws == DispatchStores(cmd, P, b, cmd.gx * cmd.gy)
        stored == {<<ws[k][1], ws[k][2]>> : k \in 1..Len(ws)}
        out == {<<n, k>> : n \in CmdWrites(cmd), k \in 0..(P.width * P.height - 1)}
        loaded == UNION {KernelLoads(cmd.pipeline, g[1], g[2], P, cmd.bg) :
                             g \in Invocations(cmd)}
        sampled == IF SampledBinding(cmd.pipeline) = 0 THEN {}
                   ELSE {cmd.bg[SampledBinding(cmd.pipeline)]}
    IN /\ stored = out
       /\ Len(ws) = Cardinality(out)
       /\ loaded \cap stored = {}
       /\ \A loc \in stored : loc[1] \notin sampled

\* C9: with the workgroups of a dispatch run in any order, (a) while a
\* dispatch is running only the buffers it writes differ from what they were
\* when it started (one writing kernel per buffer and stage); (b) each output
\* cell is stored by exactly one task and no task loads a location another
\* task of the stage stores; (c) when the dispatch has completed, the buffers
\* are the ones the workgroups give in row-major order from the buffers at its
\* start, whatever the order they ran in.
C9_StageDeterministic ==
    /\ wgdone # {} =>
           /\ wgdone \subseteq Workgroups(Head(queue))
           /\ \A n \in BufNames \ CmdWrites(Head(queue)) : buf[n] = snap[n]
    /\ (queue # <<>> /\ Head(queue).op = "dispatch" /\ wgdone = {}) =>
           TasksIndependent(Head(queue), args, buf)
    /\ (last.cmd.op = "dispatch" /\ wgdone = {}) =>
           buf = ExecCommand(snap, last.cmd, args)

C9_Witness ==
    /\ last.cmd.pipeline = "jacobi"
    /\ last.cmd.it = 1
    /\ wgdone = {}
    /\ snap # <<>>
    /\ buf # snap

\* C10: in every step, when AdvectDye starts, every cell of the velocity
\* buffer it reads (binding 1) was stored by the Project dispatch of that same
\* step.
C10_DyeUsesProjectedVelocity ==
    last.cmd.pipeline = "advect_dye" =>
        last.rd[last.cmd.bg[1]] = {Stamp("project", last.cmd.step, 0)}

C10_Witness ==
    /\ last.cmd.pipeline = "advect_dye"
    /\ last.cmd.step = args.steps
    /\ args.steps = 2
    /\ args.width > MIN_DIM

\* C11: the readback copies are submitted behind every dispatch of the last
\* step (a queued copy has no dispatch behind it in the queue, and it is
\* recorded once all steps are); the copy into vel_read reads velocity wholly
\* stored by Project of the last step and the copy into dye_read reads dye
\* wholly stored by Fade of the last step; and the host is at its statistics
\* loops, or has answered ok, only with all submitted work done, both readback
\* buffers mapped (while it reads) and holding those copies.
C11_ReadbackAfterLastStep ==
    /\ \A k \in 1..Len(queue) :
           queue[k].op = "copy" =>
              /\ step = args.steps
              /\ \A j \in k..Len(queue) : queue[j].op = "copy"
    /\ (last.cmd.op = "copy" /\ last.cmd.dst = "vel_read") =>
           /\ last.cmd.src = "vel_a"
           /\ last.rd["vel_a"] = {Stamp("project", args.steps, 0)}
    /\ (last.cmd.op = "copy" /\ last.cmd.dst = "dye_read") =>
           /\ last.cmd.src = "dye_a"
           /\ last.rd["dye_a"] = {Stamp("fade", args.steps, 0)}
    /\ pc = "map_dye" => mapped = {"vel_read"}
    /\ pc = "stats" => mapped = {"vel_read", "dye_read"}
    /\ (pc = "stats" \/ resp = "ok") =>
           /\ queue = <<>>
           /\ Stamps(buf["vel_read"]) = {Stamp("project", args.steps, 0)}
           /\ Stamps(buf["dye_read"]) = {Stamp("fade", args.steps, 0)}
    /\ resp = "ok" => pc = "done"
    /\ resp = "error" => pc = "failed"

C11_Witness ==
    /\ pc = "done"
    /\ resp = "ok"
    /\ args.steps = 2
    /\ args.width > MIN_DIM

\* C12: every call of run_smoke, run_fluid_init and run_fluid_step is made
\* with n >= 64, width >= 16 and height >= 16, steps >= 1, dt >= 1e-4,
\* 0.8 <= fade <= 1.0 and 5 <= jacobi_iters <= 120, and a requested value that
\* is inside its range is the value passed.
C12_ClampedParameters ==
    \A k \in 1..Len(calls) :
       LET call == calls[k]
       IN /\ call.fn = "run_smoke" =>
                LET asked == IF req.cmd = "smoke" THEN req.n
                             ELSE IF req.sizes = <<>>
                                  THEN <<1024, 4096, 16384, 65536>>[k]
                                  ELSE req.sizes[k]
                IN /\ call.n >= 64
                   /\ asked >= 64 => call.n = asked
          /\ call.fn = "run_fluid_init" =>
                /\ call.width >= 16 /\ call.height >= 16
                /\ req.width >= 16 => call.width = req.width
                /\ req.height >= 16 => call.height = req.height
          /\ call.fn = "run_fluid_step" =>
                /\ call.width >= 16 /\ call.height >= 16
                /\ call.steps >= 1
                /\ call.dt >= 1
                /\ call.fade >= 8000 /\ call.fade <= 10000
                /\ call.jacobi_iters >= 5 /\ call.jacobi_iters <= 120
                /\ req.width >= 16 => call.width = req.width
                /\ req.height >= 16 => call.height = req.height
                /\ req.steps >= 1 => call.steps = req.steps
                /\ req.dt >= 1 => call.dt = req.dt
                /\ (req.fade >= 8000 /\ req.fade <= 10000) => call.fade = req.fade
                /\ (req.jacobi_iters >= 5 /\ req.jacobi_iters <= 120) =>
                       call.jacobi_iters = req.jacobi_iters
                /\ args.width = call.width /\ args.height = call.height
                /\ args.steps = call.steps
                /\ args.jacobi_iters = call.jacobi_iters

C12_Witness ==
    /\ calls # <<>>
    /\ calls[1].fn = "run_fluid_step"
    /\ req.jacobi_iters > 120
    /\ req.fade > 10000
    /\ calls[1].jacobi_iters = 120
    /\ ndisp["jacobi"] = 120

\* C13 (as claimed): the initialized_cells of every fluid_init response is the
\* product width * height of its width and height.
C13_InitializedCellsIsProduct ==
    \A k \in 1..Len(stdout) :
       stdout[k].kind = "fluid_init" =>
          stdout[k].initialized_cells \o <<0, 0, 0, 0>>
             = MulLimbs(Limbs4(stdout[k].width), Limbs4(stdout[k].height), 1, 0)

\* The smoke responses built so far: the runs of a sweep, the value returned
\* to run(), and what was printed.
SmokeResponsesSeen ==
    {runs[k] : k \in 1..Len(runs)}
    \cup (IF ret.kind = "smoke" THEN {ret} ELSE {})
    \cup {stdout[k] : k \in {j \in 1..Len(stdout) : stdout[j].kind = "smoke"}}

\* The indices of the readback memory off by more than 1e-5.
Mismatches(rb) == {i \in DOMAIN rb : ~rb[i].nan /\ Abs(rb[i].d) > 10}

\* C14: in every smoke response ok is true exactly when mismatch_count is 0;
\* the mismatch_count of the response just built is the number of indices
\* whose value is off by more than 1e-5, and its max_abs_error is at least
\* every such difference and is one of the differences (or 0 with none).
C14_OkIffNoMismatch ==
    /\ \A r \in SmokeResponsesSeen : r.ok <=> r.mismatch_count = 0
    /\ \A r \in SmokeResponsesSeen :
          \/ /\ pc = "print"
             /\ r # ret
          \/ /\ pc = "start"
             /\ (runs = <<>> \/ r # runs[Len(runs)])
          \/ pc \notin {"print", "start"}
          \/ /\ r.mismatch_count = Cardinality(Mismatches(readback))
             /\ \A i \in DOMAIN readback :
                   ~readback[i].nan => r.max_abs_error >= Abs(readback[i].d)
             /\ \/ r.max_abs_error = 0
                \/ \E i \in DOMAIN readback :
                      ~readback[i].nan /\ r.max_abs_error = Abs(readback[i].d)

C14_Witness ==
    /\ stdout # <<>>
    /\ stdout[1].kind = "smoke"
    /\ ~stdout[1].ok
    /\ stdout[1].mismatch_count = 2

\* C15: a sweep calls run_smoke once per requested size, in request order
\* (for the sizes 1024, 4096, 16384, 65536 when none is requested), keeps one
\* run per call made, and the response it prints carries all the runs and has
\* ok true exactly when every run has ok true.
C15_SweepRunsAllSizes ==
    req.cmd = "smoke_sweep" =>
       LET sizes == IF req.sizes = <<>> THEN <<1024, 4096, 16384, 65536>>
                    ELSE req.sizes
       IN /\ Len(calls) <= Len(sizes)
          /\ \A k \in 1..Len(calls) :
                /\ calls[k].fn = "run_smoke"
                /\ calls[k].n = Max(sizes[k], 64)
          /\ Len(runs) <= Len(calls)
          /\ \A k \in 1..Len(runs) : runs[k].n = calls[k].n
          /\ \A j \in 1..Len(stdout) :
                stdout[j].kind = "smoke_sweep" =>
                   /\ stdout[j].runs = runs
                   /\ Len(runs) = Len(sizes)
                   /\ stdout[j].ok <=> (\A k \in 1..Len(runs) : runs[k].ok)

C15_Witness ==
    /\ req.cmd = "smoke_sweep"
    /\ req.sizes = <<>>
    /\ stdout # <<>>
    /\ stdout[1].kind = "smoke_sweep"
    /\ Len(stdout[1].runs) = 4
    /\ ~stdout[1].runs[2].ok
    /\ stdout[1].runs[4].ok

\* C16: the process prints at most one object, and exactly one by the time it
\* has exited; nothing is printed while the request is still being served.
\* After an unparseable or unreadable request, a device acquisition failure or
\* a readback mapping failure (in a single run, in run k of a sweep, or in
\* fluid_step) that one object is the error object with ok = false and the
\* error, and the exit status is 1; otherwise the status is 0 and the object
\* is the response of the request.
C16_SingleResponse ==
    /\ Len(stdout) <= 1
    /\ exit = "running" <=> stdout = <<>>
    /\ exit = "running" <=> pc # "exited"
    /\ (exit # "running" /\ failure # "none") =>
           /\ stdout = <<[ok |-> FALSE, kind |-> "error", error |-> failure]>>
           /\ exit = "1"
    /\ (exit # "running" /\ failure = "none") =>
           /\ stdout[1].kind = req.cmd
           /\ exit = "0"
    /\ failure # "none" => pc \in {"failed", "exited"}

C16_Witness ==
    /\ req.cmd = "smoke_sweep"
    /\ Len(runs) >= 1
    /\ failure = "map"
    /\ exit = "1"

\* The text on stdin is empty or whitespace only.
Blank(text) == \A k \in 1..Len(text) : text[k].t = "sp"

NoKernelDispatched ==
    /\ calls = <<>>
    /\ work.submitted = 0
    /\ queue = <<>>
    /\ \A k \in DOMAIN ndisp : ndisp[k] = 0

\* C17: once the input is read, an absent input (empty or whitespace only) has
\* become the request smoke with n = 1024 and is no parse error; an input that
\* is not absent is never replaced by that default: either it is the request
\* written in it, or the request fails with a parse (or read) error, and then no
\* call was made and no command submitted or run.
C17_AbsentInputIsSmoke ==
    /\ (pc # "stdin" /\ Blank(input)) =>
           /\ req = [cmd |-> "smoke", n |-> 1024]
           /\ failure \notin {"parse", "stdin"}
    /\ (pc # "stdin" /\ ~Blank(input)) =>
           \/ /\ failure \in {"parse", "stdin"}
              /\ req.cmd = "none"
           \/ \E k \in 1..Len(input) :
                 /\ input[k].t = "json"
                 /\ req.cmd = input[k].v.cmd
                 /\ \A j \in 1..Len(input) : j # k => input[j].t = "sp"
                 /\ req.cmd = "smoke" => req.n = input[k].v.n
    /\ failure \in {"parse", "stdin"} => NoKernelDispatched

C17_Witness ==
    /\ input = <<Space, Space>>
    /\ stdout # <<>>
    /\ stdout[1].kind = "smoke"
    /\ stdout[1].n = 1024
    /\ exit = "0"

\* C18 (as claimed): a smoke, fluid_init or fluid_step response is printed
\* only when the backend has completed everything the request submitted.
C18_ResponseAfterCompletion ==
    \A k \in 1..Len(stdout) :
       stdout[k].kind \in {"smoke", "fluid_init", "fluid_step"} =>
          /\ work.done = work.submitted
          /\ queue = <<>>

\* C19: with fade < 1.0 (impulse and dye_radius fixed) dye_total is bounded
\* independently of the number of steps.  Advection stores a convex
\* combination of source cells and fade stores src * fade + source with
\* source in {0, 0.02}, so no cell leaves [0, B] for
\* B = max(1.0, source / (1 - fade)), and dye_total is at most cells * B.
\* (Each of the two nested mix of a sample rounds its two products, which
\* can add one unit per level: B carries these two units per step.)
DyeBound(P) == Max(FX, DivCeil((Fx(2, 100) + 2) * FX, FX - P.fade))

C19_DyeTotalBounded ==
    (num.stage # "off" /\ num.P.fade < FX) =>
       LET B == DyeBound(num.P)
       IN  /\ \A i \in Grid(num.P) :
                /\ 0 <= num.bufs["dye_a"][i] /\ num.bufs["dye_a"][i] <= B
                /\ 0 <= num.bufs["dye_b"][i] /\ num.bufs["dye_b"][i] <= B + 2
           /\ \A k \in DOMAIN num.reports :
                /\ 0 <= num.reports[k].dye_total
                /\ num.reports[k].dye_total
                     <= num.P.width * num.P.height * B

\* A response after MaxNumSteps steps with fade < 1.0 that reports dye.
C19_Witness ==
    /\ num.stage = "idle"
    /\ num.P.fade < FX
    /\ num.P.steps = MaxNumSteps
    /\ \E k \in DOMAIN num.reports : num.reports[k].dye_total > 0

\* C20: for a fixed seed and fixed parameters, a response with more Jacobi
\* iterations (within [5, 120]) never reports a larger max_divergence than
\* one with fewer, up to a tolerance.  The claim leaves the tolerance open;
\* one tenth of the smaller-iteration value is allowed here.
Tolerance(v) == v \div 10

C20_MoreIterationsLessDivergence ==
    \A k1 \in DOMAIN num.reports, k2 \in DOMAIN num.reports :
       k1 < k2 =>
          num.reports[k2].max_divergence
             <= num.reports[k1].max_divergence
                  + Tolerance(num.reports[k1].max_divergence)

\* C21: in every step the Divergence dispatch and the Project dispatch read
\* as velocity the buffer the AdvectVelocity dispatch of the same step wrote
\* (every cell of it holds that dispatch's store), Project writes the other
\* velocity buffer, and neither reads the buffer that holds the previous
\* step's final velocity.
C21_SolveReadsAdvectedVelocity ==
    last.cmd.pipeline \in {"divergence", "project"} =>
        LET vin == last.cmd.bg[1]
        IN  /\ vin = bg_advect_vel[2]
            /\ last.rd[vin] = {Stamp("advect_vel", last.cmd.step, 0)}
            /\ bg_advect_vel[1] \notin CmdReads(last.cmd)
            /\ last.cmd.pipeline = "project" =>
                  /\ CmdWrites(last.cmd) = {bg_advect_vel[1]}
                  /\ bg_advect_vel[1] # vin
                  /\ wgdone = {} =>
                        Stamps(buf[bg_advect_vel[1]]) = {CmdStamp(last.cmd)}

C21_Witness ==
    /\ last.cmd.pipeline = "project"
    /\ last.cmd.step = 2
    /\ HeadIs("advect_dye")

\* C22: for every cell (x, y) of the grid, the host's divergence statistic
\* and the divergence kernel use the same four neighbour cells, left =
\* max(x-1, 0), right = min(x+1, width-1), bottom = max(y-1, 0), top =
\* min(y+1, height-1), and combine them alike as
\* 0.5 * ((v_right.x - v_left.x) + (v_top.y - v_bottom.y)).
C22_HostDivergenceAsKernel ==
    num.stage # "off" =>
       \A i \in Grid(num.P) :
          LET x == i % num.P.width
              y == i \div num.P.width
              w == num.P.width
              h == num.P.height
              claimed == << y * w + Max(x - 1, 0), y * w + Min(x + 1, w - 1),
                            Max(y - 1, 0) * w + x, Min(y + 1, h - 1) * w + x >>
          IN  /\ HostNeighbours(x, y, w, h) = claimed
              /\ Neighbours(x, y, num.P) = claimed
              /\ \A n \in {"vel_a", "vel_b"} :
                    HostDivergence(x, y, num.P, num.bufs[n])
                       = DivergenceValue(x, y, num.P, num.bufs[n])

\* A response was computed from a field whose divergence at a cell of the
\* left edge and at a cell of the top edge is not zero.
C22_Witness ==
    /\ num.stage = "idle"
    /\ num.reports # <<>>
    /\ \E i \in Grid(num.P) :
          /\ i % num.P.width = 0
          /\ HostDivergence(0, i \div num.P.width, num.P, num.bufs["vel_read"]) # 0
    /\ \E x \in 0..(num.P.width - 1) :
          HostDivergence(x, num.P.height - 1, num.P, num.bufs["vel_read"]) # 0

\* The binding of the buffer whose neighbour cells the kernel loads: vel in
\* Divergence, p_in in Jacobi (binding 1), pressure in Project (binding 2).
NeighbourBinding(pipeline) == IF pipeline = "project" THEN 2 ELSE 1

\* C23: in the Divergence, Jacobi and Project kernels, for every cell of the
\* grid, each of the four neighbour indices lies in [0, width*height) and is
\* a cell of the same row or the same column at distance at most 1; the
\* neighbour is the adjacent cell where there is one and the cell itself
\* where the grid ends (no wraparound), and these are the only cells the
\* kernel loads from that buffer.
C23_NeighboursClamped ==
    last.cmd.pipeline \in {"divergence", "jacobi", "project"} =>
       \A x \in 0..(args.width - 1), y \in 0..(args.height - 1) :
          LET w  == args.width
              h  == args.height
              nb == Neighbours(x, y, args)
              b  == last.cmd.bg[NeighbourBinding(last.cmd.pipeline)]
          IN  /\ \A k \in 1..4 :
                    /\ nb[k] >= 0
                    /\ nb[k] < w * h
                    /\ \/ nb[k] \div w = y /\ Abs((nb[k] % w) - x) <= 1
                       \/ nb[k] % w = x /\ Abs((nb[k] \div w) - y) <= 1
              /\ nb[1] = idx(IF x = 0 THEN x ELSE x - 1, y, args)
              /\ nb[2] = idx(IF x = w - 1 THEN x ELSE x + 1, y, args)
              /\ nb[3] = idx(x, IF y = 0 THEN y ELSE y - 1, args)
              /\ nb[4] = idx(x, IF y = h - 1 THEN y ELSE y + 1, args)
              /\ {l \in KernelLoads(last.cmd.pipeline, x, y, args, last.cmd.bg) :
                     l[1] = b}
                    = {<<b, nb[k]>> : k \in 1..4}

\* The second Jacobi pass of a step ran to its end on a grid of width 17,
\* whose last column is the only column of its workgroup.
C23_Witness ==
    /\ last.cmd.pipeline = "jacobi"
    /\ last.cmd.it = 1
    /\ args.width = 17
    /\ wgdone = {}
    /\ Neighbours(16, 0, args) = <<15, 16, 16, 33>>

\* C24 (as claimed): after init and after every completed step (dye_a is
\* stored by the init kernel and by the Fade dispatch that ends a step and by
\* nothing else) every dye cell lies in [0, ~1], for every allowed fade and
\* any number of steps.  The claim leaves "substantially above 1" open; a
\* quarter above 1 is allowed here.
C24_DyeInUnitRange ==
    num.stage # "off" =>
       \A i \in Grid(num.P) :
          /\ 0 <= num.bufs["dye_a"][i]
          /\ num.bufs["dye_a"][i] <= FX + FX \div 4

DyeBufs == {"dye_a", "dye_b", "dye_read"}

\* The buffers b with the dye of every cell i replaced by (k * i) % (FX + 1).
WithDye(b, P, k) ==
    [n \in DOMAIN b |->
        IF n \in DyeBufs THEN [i \in Grid(P) |-> (k * i) % (FX + 1)] ELSE b[n]]

\* C25: the dye never influences the dynamics: a command that writes a
\* velocity, divergence or pressure buffer reads no dye buffer, and the
\* command about to run leaves the same contents in every buffer that is not
\* a dye buffer when it starts from the same buffers with other dye in them
\* (so two runs that differ only in dye agree on velocity, divergence and
\* pressure after every command, hence after every step).
C25_DyeDoesNotDriveFlow ==
    (num.stage = "run" /\ num.todo # <<>>) =>
       LET cmd   == Head(num.todo)
           after == NumCommand(num.bufs, cmd, num.P)
       IN  /\ CmdWrites(cmd) \ DyeBufs # {} => CmdReads(cmd) \cap DyeBufs = {}
           /\ \A k \in {0, 37} : \A n \in BufNames \ DyeBufs :
                 NumCommand(WithDye(num.bufs, num.P, k), cmd, num.P)[n] = after[n]

\* The second Jacobi pass of step 2 is about to run, the dye buffers hold
\* dye, and the pressure and the divergence it reads are not zero.
C25_Witness ==
    /\ num.stage = "run"
    /\ num.todo # <<>>
    /\ Head(num.todo).pipeline = "jacobi"
    /\ Head(num.todo).step = 2
    /\ Head(num.todo).it = 1
    /\ num.bufs["dye_a"] # ZeroField(num.P)
    /\ num.bufs["dye_a"] # WithDye(num.bufs, num.P, 37)["dye_a"]
    /\ num.bufs["div"] # ZeroField(num.P)
    /\ num.bufs["pressure_b"] # ZeroField(num.P)

\* The device ran the command at the head of the queue.
Ran == queue # <<>> /\ queue' = Tail(queue)

\* The Divergence dispatch of a step has run and its Project dispatch has not.
InSolve == last.cmd.pipeline \in {"divergence", "jacobi"}

\* C26: a Jacobi pass leaves every buffer but the pressure buffers as it was;
\* the only command that stores to the divergence buffer is the Divergence
\* dispatch, which runs once in each step (the s-th of them belongs to step
\* s); and from the end of the Divergence stage to the start of the Project
\* stage the divergence buffer, both velocity buffers and both dye buffers do
\* not change, so that when Project starts every divergence cell still holds
\* the store of this step's Divergence dispatch.
C26_JacobiChangesPressureOnly ==
    [][ /\ (Ran /\ Head(queue).pipeline = "jacobi") =>
              /\ CmdWrites(Head(queue)) \subseteq PressureBufs
              /\ \A n \in BufNames \ PressureBufs : buf'[n] = buf[n]
        /\ (Ran /\ (buf'["div"] # buf["div"] \/ "div" \in CmdWrites(Head(queue)))) =>
              /\ Head(queue).pipeline = "divergence"
              /\ ndisp'["divergence"] = ndisp["divergence"] + 1
              /\ ndisp'["divergence"] = Head(queue).step
        /\ (InSolve /\ InSolve') =>
              \A n \in BufNames \ PressureBufs : buf'[n] = buf[n]
        /\ (Ran /\ Head(queue).pipeline = "project") =>
              /\ InSolve
              /\ Stamps(buf["div"]) = {Stamp("divergence", Head(queue).step, 0)}
              /\ ndisp["divergence"] = Head(queue).step
      ]_vars

\* The last of six Jacobi passes of step 2 has run and Project is next.
C26_Witness ==
    /\ last.cmd.pipeline = "jacobi"
    /\ last.cmd.step = 2
    /\ last.cmd.it = 5
    /\ HeadIs("project")
    /\ ndisp["divergence"] = 2

\* C27: a fluid dispatch of ceil(width/8) x ceil(height/8) workgroups of 8 x 8
\* invocations runs the kernel body (passes the guard) for exactly the cells
\* x < width, y < height; the stores it issues go to the indices
\* [0, width*height) of the buffers it writes and to no other index, each
\* cell being stored exactly once (the number of stores is the number of
\* cells).  The smoke dispatch of ceil(n/64) workgroups of 64 that
\* run_smoke(n) is about to submit touches exactly the indices [0, n), each
\* from one invocation.
C27_DispatchCoversGrid ==
    /\ (queue # <<>> /\ Head(queue).op = "dispatch") =>
          LET cmd == Head(queue)
              w   == args.width
              h   == args.height
              ws  == DispatchStores(cmd, args, buf, cmd.gx * cmd.gy)
          IN  /\ {g \in Invocations(cmd) : ~OutOfGrid(g[1], g[2], args)}
                    = (0..(w - 1)) \X (0..(h - 1))
              /\ cmd.gx * WG_SIZE >= w /\ (cmd.gx - 1) * WG_SIZE < w
              /\ cmd.gy * WG_SIZE >= h /\ (cmd.gy - 1) * WG_SIZE < h
              /\ {<<ws[k][1], ws[k][2]>> : k \in 1..Len(ws)}
                    = CmdWrites(cmd) \X (0..(w * h - 1))
              /\ Len(ws) = Cardinality(CmdWrites(cmd)) * w * h
    /\ (pc = "smoke" /\ LastCall.fn = "run_smoke") =>
          LET st == SmokeStores(LastCall.n)
          IN  /\ {t[3] : t \in st} = 0..(LastCall.n - 1)
              /\ Cardinality(st) = LastCall.n

\* The Fade dispatch of a 17 x 17 grid, 3 x 3 workgroups whose last row and
\* last column hold one row and one column of cells, is about to run.
C27_Witness ==
    /\ HeadIs("fade")
    /\ args.width = 17
    /\ args.height = 17
    /\ Head(queue).gx = 3
    /\ Head(queue).gy = 3
    /\ Cardinality(Invocations(Head(queue))) = 576

\* The dispatches run so far are those of s whole steps: s * jacobi_iters
\* Jacobi passes and s of each other stage.
StepCounts(s) ==
    /\ ndisp["jacobi"] = s * args.jacobi_iters
    /\ \A p \in {"advect_vel", "divergence", "project", "advect_dye", "fade"} :
          ndisp[p] = s

Responded ==
    /\ pc = "done"
    /\ resp = "ok"
    /\ queue = <<>>
    /\ step = args.steps
    /\ StepCounts(args.steps)

\* C28: if no mapping fails (and, by the fairness of SpecFair, the backend
\* completes every submitted command), every fluid_step request leads to a
\* response; the response comes after exactly `steps` step submissions, and
\* when the Fade dispatch of step s has run, exactly s * jacobi_iters Jacobi
\* dispatches and s each of AdvectVelocity, Divergence, Project, AdvectDye
\* and Fade have run (jacobi_iters and one each per step).
C28_RequestLeadsToResponse ==
    /\ [](last.cmd.pipeline = "fade" => StepCounts(last.cmd.step))
    /\ [](pc = "done" => Responded)
    /\ ([](pc # "failed") => ((pc = "seed") ~> Responded))

\* The response of a request of 2 steps with 6 Jacobi iterations.
C28_Witness ==
    /\ Responded
    /\ args.steps = 2
    /\ args.jacobi_iters = 6
    /\ ndisp["jacobi"] = 12

\* C29 (as claimed): run_fluid_init returns a response with ok = true only
\* if the wait for the init dispatch reported success, and a fluid_init
\* request whose wait reported a failure ends with an ok = false response
\* and a non-zero exit status.
C29_InitOkOnlyAfterSuccessfulWait ==
    /\ (ret.kind = "fluid_init" /\ ret.ok) => ~work.wait_err
    /\ (req.cmd = "fluid_init" /\ work.wait_err /\ exit # "running") =>
          /\ stdout[1].ok = FALSE
          /\ exit = "1"

====
